---- MODULE Spec2Model ----
(***************************************************************************)
(* GhostHub: the media catalog and synchronized viewing engine.            *)
(*                                                                         *)
(* The model follows app/services/sync_service.py (SyncService),           *)
(* app/services/media_service.py (MediaService),                           *)
(* app/services/indexing_service.py (IndexingService), the media route of  *)
(* app/routes/api_routes.py and app/socket_events.py.                      *)
(* The server runs every request and socket handler as a gevent greenlet   *)
(* (app/__init__.py: async_mode='gevent', monkey.patch_all() in every      *)
(* entry point): greenlets are scheduled cooperatively, so a handler runs  *)
(* without interruption between two points at which it blocks. The thread  *)
(* of the background indexer is a greenlet as well.                        *)
(*                                                                         *)
(* File names are modelled by the integers 1..n, ordered as sorted()       *)
(* orders the names. Time is counted in units of 300 s.                    *)
(***************************************************************************)
EXTENDS Integers, Sequences, FiniteSets, TLC

VARIABLES
    SYNC_MODE_ENABLED,      \* sync_service.SYNC_MODE_ENABLED
    HOST_SESSION_ID,        \* sync_service.HOST_SESSION_ID
    current_media_state,    \* sync_service.current_media_state
    _sync_session_order,    \* sync_service._sync_session_order: dict category -> list
    seen_files_tracker,     \* media_service.seen_files_tracker: dict category -> dict session -> entry
    sync_mode_order,        \* media_service.sync_mode_order: dict category -> sorted list
    last_session_cleanup,   \* media_service.last_session_cleanup
    index_file,             \* the index document stored with each category directory
    directory,              \* the media files each category directory holds
    faults,                 \* the calls of the file system that fail at present
    now,                    \* time.time()
    connected,              \* the socket connections (sids) that are open
    sync_room,              \* the sids that are members of SYNC_ROOM
    _session_states,        \* sync_service._session_states: dict session -> view state, in insertion order
    emitted,                \* the events the last handler handed to socketio.emit, in order
    client_view,            \* the sync status a client holds that has applied every event emitted
    resp,                   \* what the last completed call returned
    pc,                     \* per greenlet: the frame of the handler it runs
    running,                \* the greenlet that holds the processor, or None
    async_index_status,     \* indexing_service.async_index_status: dict category -> job
    index_task_queue,       \* indexing_service.index_task_queue, the tasks in order
    worker                  \* the background indexer: its position and its locals

syncVars == <<SYNC_MODE_ENABLED, HOST_SESSION_ID, current_media_state, _sync_session_order>>
mediaVars == <<seen_files_tracker, sync_mode_order, last_session_cleanup, index_file, directory,
               faults>>
connVars == <<connected, sync_room, _session_states>>
greenletVars == <<pc, running>>
indexVars == <<async_index_status, index_task_queue, worker>>
vars == <<SYNC_MODE_ENABLED, HOST_SESSION_ID, current_media_state, _sync_session_order,
          seen_files_tracker, sync_mode_order, last_session_cleanup, index_file, directory,
          faults, now, connected, sync_room, _session_states, emitted, client_view, resp, pc, running,
          async_index_status, index_task_queue, worker>>

(***************************************************************************)
(* Bounds of the model and the values the inputs are drawn from.           *)
(***************************************************************************)
MaxTime == 2
MaxPage == 2

\* program constants; the times in units of 300 s, SESSION_EXPIRY (12 units in
\* the default configuration) shortened to the least value above CACHE_EXPIRY
cleanup_interval == 1
SESSION_EXPIRY == 2
CACHE_EXPIRY == 1
DEFAULT_PAGE_SIZE == 10
MaxLimit == 100

\* the cap of the sessions tracked for one category, scaled down from 50 to the
\* two sessions of the model; CapSessions adds the session that exceeds it
MAX_SESSIONS_PER_CATEGORY == 2

\* the constants of the indexing service, scaled down to directories of a few
\* files: 50 files make a directory large and the worker publishes every 10
LARGE_DIRECTORY_THRESHOLD == 2
chunk_size == 2

None == "None"
Sessions == {"s1", "s2"}
SessionCookies == Sessions \cup {None}
CapSessions == Sessions \cup {"s3"}
Categories == {"c1", "c2"}
Urls == {"u1"}
Conns == {"k1", "k2"}
\* the session_id cookie each connection was opened with
ConnCookie == [k \in Conns |-> IF k = "k1" THEN "s1" ELSE "s2"]
Greenlets == {"g1", "g2"}

(***************************************************************************)
(* Python dicts are functions with a finite domain.                        *)
(***************************************************************************)
EmptyDict == <<>>
DictSet(d, k, v) == [x \in (DOMAIN d) \cup {k} |-> IF x = k THEN v ELSE d[x]]
Range(f) == {f[x] : x \in DOMAIN f}

ResetMediaState == [category_id |-> None, file_url |-> None, index |-> 0, timestamp |-> now]

(***************************************************************************)
(* MediaService.get_session_order: the stored order of a session, or None. *)
(* Every caller only tests the result for truth, which None and [] both    *)
(* fail, so None is returned as the empty list.                            *)
(***************************************************************************)
get_session_order(category_id, session_id) ==
    IF category_id \in DOMAIN seen_files_tracker
       /\ session_id \in DOMAIN seen_files_tracker[category_id]
    THEN seen_files_tracker[category_id][session_id].order
    ELSE <<>>

(***************************************************************************)
(* SyncService.get_status for the session of the request.                  *)
(***************************************************************************)
get_status(session_id) ==
    [op |-> "status",
     active |-> SYNC_MODE_ENABLED,
     is_host |-> SYNC_MODE_ENABLED /\ session_id = HOST_SESSION_ID]

(***************************************************************************)
(* SyncService.get_current_media.                                          *)
(***************************************************************************)
\* a socket handler returns nothing
NoResponse == [op |-> "none"]

NotEnabledError == [error |-> "Sync mode not enabled"]

\* a variant that returns the stored state whatever the mode
get_current_media_Unguarded == current_media_state

get_current_media ==
    IF ~SYNC_MODE_ENABLED THEN NotEnabledError ELSE current_media_state

(***************************************************************************)
(* socketio.emit: an event, its payload and the connections it goes to.    *)
(* Without room it goes to every open connection; with room=SYNC_ROOM to   *)
(* the members of the room; with room=<sid> to that connection.            *)
(***************************************************************************)
Event(name, data, to) == [event |-> name, data |-> data, to |-> to]

BroadcastRecipients == connected

\* a variant that sends room events to every connection
RoomRecipients_Everyone == connected

RoomRecipients == sync_room

\* the payload is read from the globals at the time of the call
SyncEnabledEvent(host_session_id, media) ==
    Event("sync_enabled",
          [active |-> TRUE, host_session_id |-> host_session_id, media |-> media],
          BroadcastRecipients)

SyncDisabledEvent == Event("sync_disabled", [active |-> FALSE], BroadcastRecipients)

SyncStateEvent(media) == Event("sync_state", media, RoomRecipients)

\* what a client that receives every event keeps of sync_enabled, sync_disabled
\* and sync_state: whether sync is active, the host, and the shared position
NoMedia == [category_id |-> None, file_url |-> None, index |-> 0, timestamp |-> 0]

NoView == [active |-> FALSE, host_session_id |-> None, media |-> NoMedia]

ApplyBroadcast(view, e) ==
    IF e.event = "sync_enabled"
    THEN [active |-> e.data.active, host_session_id |-> e.data.host_session_id,
          media |-> e.data.media]
    ELSE IF e.event = "sync_disabled"
    THEN NoView
    ELSE [view EXCEPT !.media = e.data]

(***************************************************************************)
(* The initial_media argument of toggle_sync_mode is a dict or None; None  *)
(* and {} are both false and modelled by the dict without keys.            *)
(***************************************************************************)
MediaKeys == {"category_id", "file_url", "index"}
CategoryArgs == Categories \cup {None}
UrlArgs == Urls \cup {None}
IndexArgs == {0, 1}

\* keys: the keys the dict holds; a key that is missing reads as None
InitialMedia(keys, category_id, file_url, index) ==
    [keys |-> keys, category_id |-> category_id, file_url |-> file_url, index |-> index]

InitialMedias ==
    {InitialMedia({}, None, None, 0)}
    \cup {InitialMedia({"category_id", "index"}, c, None, 0) : c \in Categories}
    \cup {InitialMedia(MediaKeys, c, "u1", i) : c \in CategoryArgs, i \in IndexArgs}

HasAllKeys(initial_media) == MediaKeys \subseteq initial_media.keys

\* a variant that never captures the order of the host
EnableAssign_NoCapture(session_id, initial_media) ==
    /\ SYNC_MODE_ENABLED' = TRUE
    /\ HOST_SESSION_ID' = session_id
    /\ current_media_state' =
          IF HasAllKeys(initial_media)
          THEN [category_id |-> initial_media.category_id, file_url |-> initial_media.file_url,
                index |-> initial_media.index, timestamp |-> now]
          ELSE ResetMediaState
    /\ UNCHANGED _sync_session_order

(***************************************************************************)
(* toggle_sync_mode, the assignments of the enabling branch (lines 64-96). *)
(***************************************************************************)
EnableAssign(session_id, initial_media) ==
    /\ SYNC_MODE_ENABLED' = TRUE
    /\ HOST_SESSION_ID' = session_id
    /\ IF initial_media.keys /= {} /\ HasAllKeys(initial_media)
       THEN /\ current_media_state' =
                  [category_id |-> initial_media.category_id,
                   file_url |-> initial_media.file_url,
                   index |-> initial_media.index,
                   timestamp |-> now]
            /\ LET category_id == initial_media.category_id
                   host_order == get_session_order(category_id, session_id)
               IN IF category_id /= None /\ host_order /= <<>>
                  THEN _sync_session_order' = DictSet(_sync_session_order, category_id, host_order)
                  ELSE UNCHANGED _sync_session_order
       ELSE /\ current_media_state' = ResetMediaState
            /\ UNCHANGED _sync_session_order

\* a variant that keeps the sync orders
DisableAssign_KeepsOrders ==
    /\ SYNC_MODE_ENABLED' = FALSE
    /\ HOST_SESSION_ID' = None
    /\ current_media_state' = ResetMediaState
    /\ UNCHANGED _sync_session_order

\* a variant that leaves the host in place
DisableAssign_KeepsHost ==
    /\ SYNC_MODE_ENABLED' = FALSE
    /\ current_media_state' = ResetMediaState
    /\ _sync_session_order' = EmptyDict
    /\ UNCHANGED HOST_SESSION_ID

(***************************************************************************)
(* toggle_sync_mode, the assignments of the disabling branch (109-119).    *)
(***************************************************************************)
DisableAssign ==
    /\ SYNC_MODE_ENABLED' = FALSE
    /\ HOST_SESSION_ID' = None
    /\ current_media_state' = ResetMediaState
    /\ _sync_session_order' = EmptyDict

\* a variant in which an enable call made while sync mode is enabled makes the
\* caller the host
toggle_sync_mode_TakesOver(session_id, enable, initial_media) ==
    /\ running = None
    /\ IF session_id = None
       THEN /\ emitted' = <<>>
            /\ UNCHANGED <<syncVars, client_view>>
       ELSE IF enable
       THEN /\ EnableAssign(session_id, initial_media)
            /\ emitted' = <<SyncEnabledEvent(HOST_SESSION_ID', current_media_state')>>
            /\ client_view' = ApplyBroadcast(client_view, emitted'[1])
       ELSE IF SYNC_MODE_ENABLED
       THEN /\ DisableAssign
            /\ emitted' = <<SyncDisabledEvent>>
            /\ client_view' = ApplyBroadcast(client_view, emitted'[1])
       ELSE /\ emitted' = <<>>
            /\ UNCHANGED <<syncVars, client_view>>
    /\ resp' = get_status(session_id)'
    /\ UNCHANGED <<mediaVars, now, connVars, greenletVars, indexVars>>

(***************************************************************************)
(* SyncService.toggle_sync_mode(enable, initial_media), called in a        *)
(* request whose session_id cookie is session_id (None: no cookie).        *)
(***************************************************************************)
toggle_sync_mode(session_id, enable, initial_media) ==
    /\ running = None
    /\ IF session_id = None
       THEN /\ emitted' = <<>>
            /\ UNCHANGED <<syncVars, client_view>>
       ELSE IF enable /\ ~SYNC_MODE_ENABLED
       THEN /\ EnableAssign(session_id, initial_media)
            /\ emitted' = <<SyncEnabledEvent(HOST_SESSION_ID', current_media_state')>>
            /\ client_view' = ApplyBroadcast(client_view, emitted'[1])
       ELSE IF ~enable /\ SYNC_MODE_ENABLED
       THEN /\ DisableAssign
            /\ emitted' = <<SyncDisabledEvent>>
            /\ client_view' = ApplyBroadcast(client_view, emitted'[1])
       ELSE /\ emitted' = <<>>
            /\ UNCHANGED <<syncVars, client_view>>
    /\ resp' = get_status(session_id)'
    /\ UNCHANGED <<mediaVars, now, connVars, greenletVars, indexVars>>

(***************************************************************************)
(* SyncService.update_current_media(category_id, file_url, index).         *)
(* category_id must be a str (None is not), file_url a str or None, index  *)
(* an int.                                                                 *)
(***************************************************************************)
UpdateResult(ok, error) == [op |-> "update", ok |-> ok, error |-> error]

ValidUpdateTypes(category_id, file_url, index) == category_id /= None /\ index \in Int

\* a variant that takes every caller for the host
IsHost_Anyone(session_id) == TRUE

IsHost(session_id) == session_id = HOST_SESSION_ID

\* a variant that writes the state and captures no order
UpdateAssign_NoRecapture(category_id, file_url, index) ==
    /\ current_media_state' =
          [category_id |-> category_id, file_url |-> file_url, index |-> index, timestamp |-> now]
    /\ UNCHANGED <<SYNC_MODE_ENABLED, HOST_SESSION_ID, _sync_session_order>>

\* lines 169-182: capture the order of a new category, then write the state
UpdateAssign(category_id, file_url, index) ==
    /\ LET host_order == get_session_order(category_id, HOST_SESSION_ID)
       IN IF current_media_state.category_id /= category_id /\ host_order /= <<>>
          THEN _sync_session_order' = DictSet(_sync_session_order, category_id, host_order)
          ELSE UNCHANGED _sync_session_order
    /\ current_media_state' =
          [category_id |-> category_id, file_url |-> file_url, index |-> index, timestamp |-> now]
    /\ UNCHANGED <<SYNC_MODE_ENABLED, HOST_SESSION_ID>>

update_current_media(session_id, category_id, file_url, index) ==
    /\ running = None
    /\ IF ~SYNC_MODE_ENABLED
       THEN /\ resp' = UpdateResult(FALSE, "Sync mode not enabled")
            /\ emitted' = <<>>
            /\ UNCHANGED <<syncVars, client_view>>
       ELSE IF ~IsHost(session_id)
       THEN /\ resp' = UpdateResult(FALSE, "Only the host can update the current media")
            /\ emitted' = <<>>
            /\ UNCHANGED <<syncVars, client_view>>
       ELSE IF ~ValidUpdateTypes(category_id, file_url, index)
       THEN /\ resp' = UpdateResult(FALSE, "Invalid update data types")
            /\ emitted' = <<>>
            /\ UNCHANGED <<syncVars, client_view>>
       ELSE /\ UpdateAssign(category_id, file_url, index)
            /\ emitted' = <<SyncStateEvent(current_media_state')>>
            /\ client_view' = ApplyBroadcast(client_view, emitted'[1])
            /\ resp' = UpdateResult(TRUE, None)
    /\ UNCHANGED <<mediaVars, now, connVars, greenletVars, indexVars>>

(***************************************************************************)
(* The handlers as greenlets. gevent switches greenlets only where the one *)
(* that runs blocks; toggle_sync_mode and update_current_media assign the  *)
(* globals, log, and hand the event to socketio.emit, which queues it for  *)
(* each recipient, and do not block in between. Each is taken in two       *)
(* steps, the assignments and the emit with the return; YieldPoints are    *)
(* the emits in front of which the greenlet gives up the processor.        *)
(***************************************************************************)
YieldPoints_AtToggleEmit == {"emit_enabled", "emit_disabled"}

YieldPoints_AtStateEmit == {"emit_state"}

YieldPoints == {}

\* the frame of a handler: the statement it has reached, the cookie of its
\* request and the state it has written
Frame(at, session_id, wrote) == [at |-> at, session_id |-> session_id, wrote |-> wrote]

IdleFrame == Frame("idle", None, NoMedia)

AllIdle == \A g \in Greenlets : pc[g].at = "idle"

\* greenlet g may take a step
CanRun(g) == running \in {None, g}

\* g goes on to the emit `at`, and is switched out in front of it if it yields
Proceed(g, at, session_id) ==
    /\ pc' = [pc EXCEPT ![g] = Frame(at, session_id, current_media_state')]
    /\ running' = IF at \in YieldPoints THEN None ELSE g

Return(g) ==
    /\ pc' = [pc EXCEPT ![g] = IdleFrame]
    /\ running' = None

\* toggle_sync_mode up to its emit (lines 57-96, 109-119, 129-133)
toggle_begin(g, session_id, enable, initial_media) ==
    /\ CanRun(g)
    /\ pc[g].at = "idle"
    /\ IF session_id /= None /\ enable /\ ~SYNC_MODE_ENABLED
       THEN /\ EnableAssign(session_id, initial_media)
            /\ Proceed(g, "emit_enabled", session_id)
            /\ UNCHANGED resp
       ELSE IF session_id /= None /\ ~enable /\ SYNC_MODE_ENABLED
       THEN /\ DisableAssign
            /\ Proceed(g, "emit_disabled", session_id)
            /\ UNCHANGED resp
       ELSE /\ resp' = get_status(session_id)
            /\ Return(g)
            /\ UNCHANGED syncVars
    /\ emitted' = <<>>
    /\ UNCHANGED <<mediaVars, now, connVars, client_view, indexVars>>

\* toggle_sync_mode from its emit on (lines 98-107, 121-128, 133): the payload
\* and the status returned are read from the globals
toggle_emit(g) ==
    /\ CanRun(g)
    /\ pc[g].at \in {"emit_enabled", "emit_disabled"}
    /\ emitted' = IF pc[g].at = "emit_enabled"
                  THEN <<SyncEnabledEvent(HOST_SESSION_ID, current_media_state)>>
                  ELSE <<SyncDisabledEvent>>
    /\ client_view' = ApplyBroadcast(client_view, emitted'[1])
    /\ resp' = get_status(pc[g].session_id)
    /\ Return(g)
    /\ UNCHANGED <<syncVars, mediaVars, now, connVars, indexVars>>

\* update_current_media up to its emit (lines 154-182)
update_begin(g, session_id, category_id, file_url, index) ==
    /\ CanRun(g)
    /\ pc[g].at = "idle"
    /\ IF ~SYNC_MODE_ENABLED
       THEN /\ resp' = UpdateResult(FALSE, "Sync mode not enabled")
            /\ Return(g)
            /\ UNCHANGED syncVars
       ELSE IF ~IsHost(session_id)
       THEN /\ resp' = UpdateResult(FALSE, "Only the host can update the current media")
            /\ Return(g)
            /\ UNCHANGED syncVars
       ELSE IF ~ValidUpdateTypes(category_id, file_url, index)
       THEN /\ resp' = UpdateResult(FALSE, "Invalid update data types")
            /\ Return(g)
            /\ UNCHANGED syncVars
       ELSE /\ UpdateAssign(category_id, file_url, index)
            /\ Proceed(g, "emit_state", session_id)
            /\ UNCHANGED resp
    /\ emitted' = <<>>
    /\ UNCHANGED <<mediaVars, now, connVars, client_view, indexVars>>

\* update_current_media from its emit on (lines 185-192): the payload is the
\* global current_media_state
update_emit(g) ==
    /\ CanRun(g)
    /\ pc[g].at = "emit_state"
    /\ emitted' = <<SyncStateEvent(current_media_state)>>
    /\ client_view' = ApplyBroadcast(client_view, emitted'[1])
    /\ resp' = UpdateResult(TRUE, None)
    /\ Return(g)
    /\ UNCHANGED <<syncVars, mediaVars, now, connVars, indexVars>>

(***************************************************************************)
(* A call of SyncService.get_current_media that returns its result.        *)
(***************************************************************************)
read_current_media ==
    /\ running = None
    /\ resp' = [op |-> "current_media", result |-> get_current_media]
    /\ emitted' = <<>>
    /\ UNCHANGED <<syncVars, mediaVars, now, connVars, client_view, greenletVars, indexVars>>

(***************************************************************************)
(* The registry of view states, SyncService._session_states: a dict, which *)
(* keeps its keys in the order of their first insertion. A session id is a *)
(* name of the model; Chars gives the characters of the string it stands   *)
(* for: "s1" and "s2" for uuids of 36 characters, the others for           *)
(* themselves, "ab16" for "ab" and 14 more characters and "ab17" for the   *)
(* 16 of "ab16" and one more.                                              *)
(***************************************************************************)
PrefixLength == 16

Pad(n) == [i \in 1..n |-> "x"]

Chars(id) ==
    CASE id = "" -> <<>>
      [] id = "a" -> <<"a">>
      [] id = "ab" -> <<"a", "b">>
      [] id = "abx" -> <<"a", "b", "x">>
      [] id = "zz" -> <<"z", "z">>
      [] id = "ab16" -> <<"a", "b">> \o Pad(14)
      [] id = "ab17" -> <<"a", "b">> \o Pad(14) \o <<"y">>
      [] OTHER -> <<id>> \o Pad(35)

\* full_id.startswith(prefix)
startswith(full_id, prefix) ==
    /\ Len(Chars(prefix)) <= Len(Chars(full_id))
    /\ SubSeq(Chars(full_id), 1, Len(Chars(prefix))) = Chars(prefix)

\* `not session_id`: the cookie is missing or empty
IsEmptyId(session_id) == session_id \in {None, ""}

\* the value of a key of the dict, the dict in insertion order
Item(key, state) == [key |-> key, state |-> state]

Keys(states) == {states[i].key : i \in DOMAIN states}

IndexOf(states, key) == CHOOSE i \in DOMAIN states : states[i].key = key

\* Python None as the result of a lookup
NoSessionState == [absent |-> TRUE]

SessionState(category_id, index, media_order) ==
    [category_id |-> category_id, index |-> index, media_order |-> media_order,
     timestamp |-> now]

\* a variant that adds the report and keeps the earlier one of the session
update_session_state_Appends(states, session_id, category_id, index, media_order) ==
    IF IsEmptyId(session_id)
    THEN [success |-> FALSE, states |-> states]
    ELSE [success |-> TRUE,
          states |-> Append(states, Item(session_id, SessionState(category_id, index, media_order)))]

\* SyncService.update_session_state on states: whether it succeeded and the dict
\* it leaves; the key of a session that is registered keeps its place
update_session_state(states, session_id, category_id, index, media_order) ==
    IF IsEmptyId(session_id)
    THEN [success |-> FALSE, states |-> states]
    ELSE LET item == Item(session_id, SessionState(category_id, index, media_order))
         IN [success |-> TRUE,
             states |-> IF session_id \in Keys(states)
                        THEN [states EXCEPT ![IndexOf(states, session_id)] = item]
                        ELSE Append(states, item)]

\* line 258: the identifier is short enough to be taken for a prefix
PrefixSearched(session_id_or_prefix) == Len(Chars(session_id_or_prefix)) < PrefixLength

\* a variant that searches by prefix before it looks for the key
get_session_state_PrefixFirst(states, session_id_or_prefix) ==
    LET matches == {i \in DOMAIN states : startswith(states[i].key, session_id_or_prefix)}
    IN IF PrefixSearched(session_id_or_prefix) /\ matches /= {}
       THEN states[CHOOSE i \in matches : \A j \in matches : i <= j].state
       ELSE IF session_id_or_prefix \in Keys(states)
       THEN states[IndexOf(states, session_id_or_prefix)].state
       ELSE NoSessionState

\* SyncService.get_session_state on states: the exact match, or the first key in
\* the order of the dict that starts with a short identifier
get_session_state(states, session_id_or_prefix) ==
    LET matches == {i \in DOMAIN states : startswith(states[i].key, session_id_or_prefix)}
    IN IF session_id_or_prefix \in Keys(states)
       THEN states[IndexOf(states, session_id_or_prefix)].state
       ELSE IF PrefixSearched(session_id_or_prefix) /\ matches /= {}
       THEN states[CHOOSE i \in matches : \A j \in matches : i <= j].state
       ELSE NoSessionState

\* a variant that leaves the entry in the dict
remove_session_state_Keeps(states, session_id) == states

\* SyncService.remove_session_state on states
remove_session_state(states, session_id) ==
    SelectSeq(states, LAMBDA item : item.key /= session_id)

(***************************************************************************)
(* socket_events.py: connect, disconnect, join_sync, leave_sync of the     *)
(* connection with sid k. Flask-SocketIO takes a connection that closes    *)
(* out of every room.                                                      *)
(***************************************************************************)
handle_connect(k) ==
    /\ running = None
    /\ k \notin connected
    /\ connected' = connected \cup {k}
    /\ emitted' = <<Event("connection_status", [status |-> "connected", id |-> k], {k})>>
    /\ UNCHANGED <<syncVars, mediaVars, now, sync_room, _session_states, client_view, resp,
                   greenletVars, indexVars>>

\* a variant in which sync mode ends when its host disconnects
handle_disconnect_EndsSync(k, flask_session_id) ==
    /\ running = None
    /\ k \in connected
    /\ connected' = connected \ {k}
    /\ sync_room' = sync_room \ {k}
    /\ _session_states' = IF IsEmptyId(flask_session_id)
                          THEN _session_states
                          ELSE remove_session_state(_session_states, flask_session_id)
    /\ emitted' = <<>>
    /\ resp' = NoResponse
    /\ IF SYNC_MODE_ENABLED /\ flask_session_id = HOST_SESSION_ID
       THEN DisableAssign
       ELSE UNCHANGED syncVars
    /\ UNCHANGED <<mediaVars, now, client_view, greenletVars, indexVars>>

handle_disconnect(k, flask_session_id) ==
    /\ running = None
    /\ k \in connected
    /\ connected' = connected \ {k}
    /\ sync_room' = sync_room \ {k}
    /\ _session_states' = IF IsEmptyId(flask_session_id)
                          THEN _session_states
                          ELSE remove_session_state(_session_states, flask_session_id)
    /\ emitted' = <<>>
    /\ resp' = NoResponse
    /\ UNCHANGED <<syncVars, mediaVars, now, client_view, greenletVars, indexVars>>

\* a variant that lets a connection into the room whatever the mode
handle_join_sync_AlwaysJoins(k) ==
    /\ running = None
    /\ k \in connected
    /\ sync_room' = sync_room \cup {k}
    /\ emitted' = <<Event("sync_state", get_current_media, {k}),
                    Event("user_joined", [sid |-> k], sync_room' \ {k})>>
    /\ resp' = NoResponse
    /\ UNCHANGED <<syncVars, mediaVars, now, connected, _session_states, client_view,
                   greenletVars, indexVars>>

handle_join_sync(k) ==
    /\ running = None
    /\ k \in connected
    /\ IF ~SYNC_MODE_ENABLED
       THEN /\ emitted' = <<Event("sync_error", [message |-> "Sync mode not enabled"], {k})>>
            /\ UNCHANGED sync_room
       ELSE /\ sync_room' = sync_room \cup {k}
            /\ emitted' = <<Event("sync_state", get_current_media, {k}),
                            Event("user_joined", [sid |-> k], sync_room' \ {k})>>
    /\ resp' = NoResponse
    /\ UNCHANGED <<syncVars, mediaVars, now, connected, _session_states, client_view,
                   greenletVars, indexVars>>

handle_leave_sync(k) ==
    /\ running = None
    /\ k \in connected
    /\ sync_room' = sync_room \ {k}
    /\ emitted' = <<Event("user_left", [sid |-> k], sync_room' \ {k})>>
    /\ resp' = NoResponse
    /\ UNCHANGED <<syncVars, mediaVars, now, connected, _session_states, client_view,
                   greenletVars, indexVars>>

(***************************************************************************)
(* socket_events.py: update_my_state and request_view_info. The payload of *)
(* an event is a dict, of which keys are the keys it holds. The index of a *)
(* report is an int in the model, which int() leaves as it is. The cookie  *)
(* session_id of the request is the one the connection was opened with.    *)
(***************************************************************************)
StateData(keys, category_id, index, media_order) ==
    [keys |-> keys, category_id |-> category_id, index |-> index, media_order |-> media_order]

StateKeys == {"category_id", "index", "media_order"}

\* lines 348-373: the fields are there, the category is a string that is not
\* blank, the index is not negative and the order is a list of strings
ValidStateData(data) ==
    /\ StateKeys \subseteq data.keys
    /\ data.category_id \notin {None, ""}
    /\ data.index >= 0
    /\ \A i \in DOMAIN data.media_order : data.media_order[i] /= None

handle_update_my_state(k, session_id, data) ==
    /\ running = None
    /\ k \in connected
    /\ IF IsEmptyId(session_id) \/ ~ValidStateData(data)
       THEN /\ emitted' = <<>>
            /\ UNCHANGED _session_states
       ELSE LET updated == update_session_state(_session_states, session_id, data.category_id,
                                                data.index, data.media_order)
            IN /\ _session_states' = updated.states
               /\ emitted' = IF updated.success
                             THEN <<>>
                             ELSE <<Event("chat_error",
                                          [message |-> "Failed to save your view state"], {k})>>
    /\ resp' = NoResponse
    /\ UNCHANGED <<syncVars, mediaVars, now, connected, sync_room, client_view, greenletVars,
                   indexVars>>

ViewRequest(keys, target_session_id) == [keys |-> keys, target_session_id |-> target_session_id]

ViewInfo(state, target_session_id) ==
    [category_id |-> state.category_id, index |-> state.index,
     media_order |-> state.media_order, target_session_id |-> target_session_id]

ViewError(message) == [error |-> message]

\* the payload of the one view_info_response of the handler; a target that is
\* None makes len() raise, which the handler answers as a server error; a
\* message is the sequence of its parts, that of a target that is not found
\* names the target
view_info_response(data) ==
    IF "target_session_id" \notin data.keys
    THEN ViewError(<<"Invalid request. Missing target_session_id.">>)
    ELSE IF data.target_session_id = None
    THEN ViewError(<<"Server error processing your request.">>)
    ELSE LET target_state == get_session_state(_session_states, data.target_session_id)
         IN IF target_state = NoSessionState
            THEN ViewError(<<"Could not find view information for session",
                             data.target_session_id>>)
            ELSE ViewInfo(target_state, data.target_session_id)

\* a variant that sends the response to every connection
handle_request_view_info_Broadcast(k, data) ==
    /\ running = None
    /\ k \in connected
    /\ emitted' = <<Event("view_info_response", view_info_response(data), connected)>>
    /\ resp' = NoResponse
    /\ UNCHANGED <<syncVars, mediaVars, now, connVars, client_view, greenletVars, indexVars>>

handle_request_view_info(k, data) ==
    /\ running = None
    /\ k \in connected
    /\ emitted' = <<Event("view_info_response", view_info_response(data), {k})>>
    /\ resp' = NoResponse
    /\ UNCHANGED <<syncVars, mediaVars, now, connVars, client_view, greenletVars, indexVars>>

(***************************************************************************)
(* Lists. sorted(names) and the orders random.shuffle can leave.           *)
(***************************************************************************)
Min(S) == CHOOSE x \in S : \A y \in S : x <= y

\* a variant that orders the names from the greatest to the least
RECURSIVE Sorted_Descending(_)
Sorted_Descending(S) ==
    IF S = {} THEN <<>>
    ELSE LET greatest == CHOOSE x \in S : \A y \in S : y <= x
         IN <<greatest>> \o Sorted_Descending(S \ {greatest})

RECURSIVE Sorted(_)
Sorted(S) == IF S = {} THEN <<>> ELSE <<Min(S)>> \o Sorted(S \ {Min(S)})

Shuffles(S) == {p \in [1..Cardinality(S) -> S] : \A i, j \in DOMAIN p : p[i] = p[j] => i = j}

\* a_list[start:end] of Python, start and end counted from 0
Slice(a_list, start, end) == SubSeq(a_list, start + 1, end)

\* a variant that skips nothing
Filter_KeepsAll(a_list, keep) == a_list

\* the elements of a_list that satisfy keep, in order
RECURSIVE Filter(_, _)
Filter(a_list, keep) ==
    IF a_list = <<>> THEN <<>>
    ELSE (IF Head(a_list) \in keep THEN <<Head(a_list)>> ELSE <<>>) \o Filter(Tail(a_list), keep)

(***************************************************************************)
(* MediaService.clean_sessions on tracker: the tracker and the cleanup     *)
(* time it leaves. The sessions over the cap are removed oldest first;     *)
(* sorted() leaves sessions of equal last_access in the order of the dict, *)
(* which the model does not keep, so any of them may go.                   *)
(***************************************************************************)
Expired(entry) == now - entry.last_access > SESSION_EXPIRY

\* a variant that lets no session expire
Unexpired_Everyone(sessions) == DOMAIN sessions

Unexpired(sessions) == {sid \in DOMAIN sessions : ~Expired(sessions[sid])}

\* a variant that enforces no maximum
KeptSessions_Uncapped(sessions, live) == {live}

\* the sets of sessions that removing the oldest may keep
KeptSessions(sessions, live) ==
    IF Cardinality(live) <= MAX_SESSIONS_PER_CATEGORY
    THEN {live}
    ELSE {K \in SUBSET live :
            /\ Cardinality(K) = MAX_SESSIONS_PER_CATEGORY
            /\ \A kept \in K, gone \in live \ K :
                  sessions[gone].last_access <= sessions[kept].last_access}

CleanupDue == now - last_session_cleanup > cleanup_interval

clean_sessions(tracker) ==
    IF ~CleanupDue
    THEN {[tracker |-> tracker, last_session_cleanup |-> last_session_cleanup]}
    ELSE LET choices == [c \in DOMAIN tracker |-> KeptSessions(tracker[c], Unexpired(tracker[c]))]
         IN {[tracker |-> [c \in {x \in DOMAIN tracker : keep[x] /= {}} |->
                              [sid \in keep[c] |-> tracker[c][sid]]],
              last_session_cleanup |-> now] :
                keep \in {k \in [DOMAIN tracker -> SUBSET CapSessions] :
                             \A c \in DOMAIN tracker : k[c] \in choices[c]}}

(***************************************************************************)
(* The snapshot of a category: valid while it has not expired.             *)
(***************************************************************************)
\* a variant that takes no snapshot to be valid
IndexValid_Never(category_id) == FALSE

IndexValid(category_id) ==
    /\ category_id \in DOMAIN index_file
    /\ {"timestamp", "files"} \subseteq DOMAIN index_file[category_id]
    /\ now - index_file[category_id].timestamp <= CACHE_EXPIRY

\* file_utils: the snapshot is stored with the category directory; load_index
\* reports a missing one as absent and save_index leaves nothing without directory
save_index(category_id, files) ==
    IF category_id \in DOMAIN directory
    THEN DictSet(index_file, category_id, [timestamp |-> now, files |-> files])
    ELSE index_file

\* a variant that takes every directory for a large one
is_large_directory_Always(category_id) == category_id \in DOMAIN directory

\* file_utils.is_large_directory(category_path, LARGE_DIRECTORY_THRESHOLD)
is_large_directory(category_id) ==
    /\ category_id \in DOMAIN directory
    /\ Cardinality(directory[category_id]) > LARGE_DIRECTORY_THRESHOLD

(***************************************************************************)
(* IndexingService: the jobs, the task queue and the worker. A job keeps   *)
(* the names of the files whose metadata it holds, in the order of the     *)
(* scan; os.listdir is taken to list the names in sorted order.            *)
(***************************************************************************)
NewJob == [status |-> "running", progress |-> 0, files |-> <<>>,
           total_files |-> 0, processed_files |-> 0]

Task(category_id, force_refresh) == [category_id |-> category_id, force_refresh |-> force_refresh]

Worker(at, task, listing, all_files_metadata, processed) ==
    [at |-> at, task |-> task, listing |-> listing,
     all_files_metadata |-> all_files_metadata, processed |-> processed]

IdleWorker == Worker("idle", Task(None, FALSE), <<>>, <<>>, 0)

\* background_thread_running is False
StoppedWorker == Worker("stopped", Task(None, FALSE), <<>>, <<>>, 0)

\* the three globals of the indexing service, as one value
IndexState(status, queue, thread) ==
    [async_index_status |-> status, index_task_queue |-> queue, worker |-> thread]

CurrentIndexState == IndexState(async_index_status, index_task_queue, worker)

JobRunning(status, category_id) ==
    category_id \in DOMAIN status /\ status[category_id].status = "running"

\* a variant that starts a job whatever the status of the category
start_async_indexing_Always(index, category_id, force_refresh) ==
    IndexState(DictSet(index.async_index_status, category_id, NewJob),
               Append(index.index_task_queue, Task(category_id, force_refresh)),
               IF index.worker.at = "stopped" THEN IdleWorker ELSE index.worker)

\* IndexingService.start_async_indexing on index: the globals it leaves; the
\* status it returns is the job of the category in them
start_async_indexing(index, category_id, force_refresh) ==
    IF JobRunning(index.async_index_status, category_id)
    THEN index
    ELSE IndexState(DictSet(index.async_index_status, category_id, NewJob),
                    Append(index.index_task_queue, Task(category_id, force_refresh)),
                    IF index.worker.at = "stopped" THEN IdleWorker ELSE index.worker)

\* a variant that rounds the share up
ScanProgress_RoundedUp(processed, total_files) ==
    IF total_files > 0
    THEN Min({(processed * 100 + total_files - 1) \div total_files, 100}) ELSE 50

\* a variant without the cap at 99
ScanProgress_Uncapped(processed, total_files) ==
    IF total_files > 0 THEN (processed * 100) \div total_files ELSE 50

\* a variant that reports the share of the files still to scan
ScanProgress_Remaining(processed, total_files) ==
    IF total_files > 0 THEN Min({((total_files - processed) * 100) \div total_files, 99}) ELSE 50

\* lines 192-196
ScanProgress(processed, total_files) ==
    IF total_files > 0 THEN Min({(processed * 100) \div total_files, 99}) ELSE 50

\* a variant in which a snapshot that cannot be saved fails the call
_load_or_rebuild_index_SaveFatal(category_id, force_refresh) ==
    IF ~force_refresh /\ IndexValid(category_id)
    THEN [ok |-> TRUE, index_file |-> index_file, files |-> index_file[category_id].files,
          index |-> CurrentIndexState]
    ELSE IF category_id \notin DOMAIN directory \/ faults.listdir \/ faults.save
    THEN [ok |-> FALSE, index_file |-> index_file, files |-> {}, index |-> CurrentIndexState]
    ELSE [ok |-> TRUE,
          index_file |-> save_index(category_id, directory[category_id] \ faults.stat),
          files |-> directory[category_id] \ faults.stat,
          index |-> CurrentIndexState]

(***************************************************************************)
(* MediaService._load_or_rebuild_index: whether it returns a list, the     *)
(* file names it returns, the index document and the indexing globals it   *)
(* leaves. A file of which os.stat raises is left out of the scan (lines   *)
(* 87-90), a save_index that fails leaves the stored document as it was    *)
(* (97-103), and an os.listdir that raises makes the call return None      *)
(* (123-129).                                                              *)
(***************************************************************************)
_load_or_rebuild_index(category_id, force_refresh) ==
    IF ~force_refresh /\ IndexValid(category_id)
    THEN [ok |-> TRUE, index_file |-> index_file, files |-> index_file[category_id].files,
          index |-> CurrentIndexState]
    ELSE IF category_id \notin DOMAIN directory \/ faults.listdir
    THEN [ok |-> FALSE, index_file |-> index_file, files |-> {}, index |-> CurrentIndexState]
    ELSE LET current_files_metadata == directory[category_id] \ faults.stat
         IN [ok |-> TRUE,
             index_file |-> IF faults.save THEN index_file
                            ELSE save_index(category_id, current_files_metadata),
             files |-> current_files_metadata,
             index |-> IF is_large_directory(category_id)
                       THEN start_async_indexing(CurrentIndexState, category_id, force_refresh)
                       ELSE CurrentIndexState]

(***************************************************************************)
(* MediaService._determine_file_order for session_id on tracker, with      *)
(* shuffled the order random.shuffle would leave: the order to paginate    *)
(* and the tracker and sorted orders it leaves.                            *)
(***************************************************************************)
NewEntry == [seen |-> {}, order |-> <<>>, last_access |-> now]

\* lines 147-156: the entry of the session, created or touched
Touch(tracker, category_id, session_id) ==
    LET sessions == IF category_id \in DOMAIN tracker THEN tracker[category_id] ELSE EmptyDict
        entry == IF session_id \in DOMAIN sessions
                 THEN [sessions[session_id] EXCEPT !.last_access = now]
                 ELSE NewEntry
    IN DictSet(tracker, category_id, DictSet(sessions, session_id, entry))

SetEntry(tracker, category_id, session_id, entry) ==
    [tracker EXCEPT ![category_id][session_id] = entry]

ClearShuffle(entry) == [entry EXCEPT !.order = <<>>, !.seen = {}]

\* a variant that never uses the sync order
SyncOrderActive_Never(category_id) == FALSE

\* lines 160-171: the sync order is used when sync is on and the category has one
SyncOrderActive(category_id) ==
    /\ SYNC_MODE_ENABLED
    /\ category_id \in DOMAIN _sync_session_order
    /\ _sync_session_order[category_id] /= <<>>

\* lines 177-185
NeedsShuffle(entry, total, force_refresh) ==
    entry.order = <<>> \/ force_refresh \/ Cardinality(entry.seen) >= total

Reshuffled(entry, total, shuffled) ==
    [entry EXCEPT !.seen = IF Cardinality(entry.seen) >= total THEN {} ELSE entry.seen,
                  !.order = shuffled]

\* whether the call reaches random.shuffle (line 183)
ShuffleDrawn(tracker, all_filenames, category_id, session_id, shuffle_preference, force_refresh) ==
    /\ ~SyncOrderActive(category_id)
    /\ shuffle_preference
    /\ NeedsShuffle(Touch(tracker, category_id, session_id)[category_id][session_id],
                    Cardinality(all_filenames), force_refresh)

_determine_file_order(tracker, all_filenames, category_id, session_id, shuffle_preference, force_refresh, shuffled) ==
    LET touched == Touch(tracker, category_id, session_id)
        session_data == touched[category_id][session_id]
        total == Cardinality(all_filenames)
    IN IF SyncOrderActive(category_id)
       THEN [order |-> _sync_session_order[category_id],
             tracker |-> SetEntry(touched, category_id, session_id, ClearShuffle(session_data)),
             sync_mode_order |-> sync_mode_order]
       ELSE IF shuffle_preference
       THEN LET entry == IF NeedsShuffle(session_data, total, force_refresh)
                         THEN Reshuffled(session_data, total, shuffled)
                         ELSE session_data
            IN [order |-> entry.order,
                tracker |-> SetEntry(touched, category_id, session_id, entry),
                sync_mode_order |-> sync_mode_order]
       ELSE LET sorted_orders == IF force_refresh \/ category_id \notin DOMAIN sync_mode_order
                                 THEN DictSet(sync_mode_order, category_id, Sorted(all_filenames))
                                 ELSE sync_mode_order
            IN [order |-> sorted_orders[category_id],
                tracker |-> SetEntry(touched, category_id, session_id, ClearShuffle(session_data)),
                sync_mode_order |-> sorted_orders]

(***************************************************************************)
(* list_media_files, lines 344-375: the page served of the order.          *)
(***************************************************************************)
CeilDiv(n, d) == (n + d - 1) \div d

\* a variant that serves the page requested
ServedPage_NoClamp(files_to_paginate, page, limit) == page

\* the page number after the clamp to the last page
ServedPage(files_to_paginate, page, limit) ==
    IF (page - 1) * limit >= Len(files_to_paginate) /\ Len(files_to_paginate) > 0
    THEN CeilDiv(Len(files_to_paginate), limit)
    ELSE page

\* a variant that reports more when the page ends where the order ends
Paginate_MoreAtEnd(files_to_paginate, page, limit) ==
    LET served == ServedPage(files_to_paginate, page, limit)
        start_index == (served - 1) * limit
        end_index == IF start_index + limit < Len(files_to_paginate)
                     THEN start_index + limit ELSE Len(files_to_paginate)
    IN [page |-> served,
        filenames |-> IF start_index < Len(files_to_paginate)
                      THEN Slice(files_to_paginate, start_index, end_index) ELSE <<>>,
        hasMore |-> served * limit <= Len(files_to_paginate)]

Paginate(files_to_paginate, page, limit) ==
    LET served == ServedPage(files_to_paginate, page, limit)
        start_index == (served - 1) * limit
        end_index == IF start_index + limit < Len(files_to_paginate)
                     THEN start_index + limit ELSE Len(files_to_paginate)
    IN [page |-> served,
        filenames |-> IF start_index < Len(files_to_paginate)
                      THEN Slice(files_to_paginate, start_index, end_index) ELSE <<>>,
        hasMore |-> served * limit < Len(files_to_paginate)]

\* lines 358-362: the names of the page are added to the seen set of the session
MarkSeen(tracker, category_id, session_id, shuffle, filenames) ==
    IF shuffle /\ category_id \in DOMAIN tracker /\ session_id \in DOMAIN tracker[category_id]
    THEN [tracker EXCEPT ![category_id][session_id].seen = @ \cup Range(filenames)]
    ELSE tracker

ListError(message) == [op |-> "list", error |-> message]

ListResult(files, page, limit, total, hasMore) ==
    [op |-> "list", error |-> None, files |-> files, page |-> page, limit |-> limit,
     total |-> total, hasMore |-> hasMore]

(***************************************************************************)
(* MediaService.list_media_files(category_id, page, limit, force_refresh,  *)
(* shuffle) in a request with the cookie session_id. limit 0 stands for 0  *)
(* and for no limit given, which `limit or DEFAULT` treats alike. A        *)
(* request without cookie is ordered under a fresh uuid, which the model   *)
(* does not draw: the requests of the model carry a cookie.                *)
(***************************************************************************)
list_media_files(session_id, category_id, page, limit_arg, force_refresh, shuffle) ==
    /\ running = None
    /\ LET limit == IF limit_arg = 0 THEN DEFAULT_PAGE_SIZE ELSE limit_arg
       IN \E cleaned \in clean_sessions(seen_files_tracker) :
          /\ last_session_cleanup' = cleaned.last_session_cleanup
          /\ IF page < 1
             THEN /\ resp' = ListError("Page number must be 1 or greater.")
                  /\ seen_files_tracker' = cleaned.tracker
                  /\ UNCHANGED <<sync_mode_order, index_file, indexVars>>
             ELSE IF ~(1 <= limit /\ limit <= MaxLimit)
             THEN /\ resp' = ListError("Limit must be between 1 and 100.")
                  /\ seen_files_tracker' = cleaned.tracker
                  /\ UNCHANGED <<sync_mode_order, index_file, indexVars>>
             ELSE IF category_id \notin Categories
             THEN /\ resp' = ListError("Category not found.")
                  /\ seen_files_tracker' = cleaned.tracker
                  /\ UNCHANGED <<sync_mode_order, index_file, indexVars>>
             ELSE LET loaded == _load_or_rebuild_index(category_id, force_refresh)
                  IN /\ index_file' = loaded.index_file
                     /\ async_index_status' = loaded.index.async_index_status
                     /\ index_task_queue' = loaded.index.index_task_queue
                     /\ worker' = loaded.index.worker
                     /\ IF ~loaded.ok
                        THEN /\ resp' = ListError("Failed to load or build index for category.")
                             /\ seen_files_tracker' = cleaned.tracker
                             /\ UNCHANGED sync_mode_order
                        ELSE IF loaded.files = {}
                        THEN /\ resp' = ListResult(<<>>, page, limit, 0, FALSE)
                             /\ seen_files_tracker' = cleaned.tracker
                             /\ UNCHANGED sync_mode_order
                        ELSE \E shuffled \in
                                  (IF ShuffleDrawn(cleaned.tracker, loaded.files, category_id,
                                                   session_id, shuffle, force_refresh)
                                   THEN Shuffles(loaded.files) ELSE {<<>>}) :
                             LET determined == _determine_file_order(cleaned.tracker, loaded.files,
                                                   category_id, session_id, shuffle, force_refresh,
                                                   shuffled)
                                 paged == Paginate(determined.order, page, limit)
                             IN /\ seen_files_tracker' =
                                      MarkSeen(determined.tracker, category_id, session_id,
                                               shuffle, paged.filenames)
                                /\ sync_mode_order' = determined.sync_mode_order
                                /\ resp' = ListResult(Filter(paged.filenames, loaded.files),
                                                      paged.page, limit,
                                                      Cardinality(loaded.files), paged.hasMore)
    /\ emitted' = <<>>
    /\ UNCHANGED <<syncVars, directory, faults, now, connVars, client_view, greenletVars>>

(***************************************************************************)
(* MediaService.list_media_files_async, lines 475-582. A category with a   *)
(* valid snapshot and a small one go to list_media_files; a large one      *)
(* without valid snapshot is answered from the job of the category. The    *)
(* route has rejected page < 1 before the call.                            *)
(***************************************************************************)
PartialResult(files, page, limit, total, hasMore, indexing_progress) ==
    [op |-> "list", error |-> None, files |-> files, page |-> page, limit |-> limit,
     total |-> total, hasMore |-> hasMore, indexing_progress |-> indexing_progress]

\* lines 527-579: the response built from the job status
PartialResponse(status, page, limit_arg) ==
    LET limit == IF limit_arg = 0 THEN DEFAULT_PAGE_SIZE ELSE limit_arg
        available_files == status.files
        start_index == (page - 1) * limit
        end_index == Min({start_index + limit, Len(available_files)})
    IN IF available_files /= <<>>
       THEN PartialResult(IF start_index < Len(available_files)
                          THEN Slice(available_files, start_index, end_index) ELSE <<>>,
                          page, limit,
                          IF status.total_files /= 0 THEN status.total_files
                          ELSE Len(available_files),
                          page * limit < Len(available_files) \/ status.progress < 100,
                          status.progress)
       ELSE PartialResult(<<>>, page, limit, status.total_files, TRUE, status.progress)

\* lines 509-518: a job is started unless one is there that has not failed
JobForQuery(category_id, force_refresh) ==
    IF \/ category_id \notin DOMAIN async_index_status
       \/ async_index_status[category_id].status = "error"
       \/ force_refresh
    THEN start_async_indexing(CurrentIndexState, category_id, force_refresh)
    ELSE CurrentIndexState

list_media_files_async(session_id, category_id, page, limit_arg, force_refresh, shuffle) ==
    IF category_id \notin Categories
    THEN /\ running = None
         /\ resp' = ListError("Category not found")
         /\ emitted' = <<>>
         /\ UNCHANGED <<syncVars, mediaVars, now, connVars, client_view, greenletVars, indexVars>>
    ELSE IF IndexValid(category_id) \/ ~is_large_directory(category_id)
    THEN list_media_files(session_id, category_id, page, limit_arg, force_refresh, shuffle)
    ELSE LET index == JobForQuery(category_id, force_refresh)
             status == index.async_index_status[category_id]
         IN IF status.status = "complete"
            THEN list_media_files(session_id, category_id, page, limit_arg, FALSE, shuffle)
            ELSE /\ running = None
                 /\ async_index_status' = index.async_index_status
                 /\ index_task_queue' = index.index_task_queue
                 /\ worker' = index.worker
                 /\ resp' = PartialResponse(status, page, limit_arg)
                 /\ emitted' = <<>>
                 /\ UNCHANGED <<syncVars, mediaVars, now, connVars, client_view, greenletVars>>

(***************************************************************************)
(* The route GET /categories/<category_id>/media (api_routes.list_media).  *)
(* limit_arg 0 stands for no limit parameter.                              *)
(***************************************************************************)
list_media(session_id, category_id, page, limit_arg, force_refresh, shuffle) ==
    IF page < 1 \/ (limit_arg /= 0 /\ limit_arg < 1)
    THEN /\ running = None
         /\ resp' = ListError(IF page < 1 THEN "Page number must be 1 or greater"
                              ELSE "Limit must be greater than 0")
         /\ emitted' = <<>>
         /\ UNCHANGED <<syncVars, mediaVars, now, connVars, client_view, greenletVars, indexVars>>
    ELSE list_media_files_async(session_id, category_id, page, limit_arg, force_refresh, shuffle)

(***************************************************************************)
(* IndexingService._background_indexer_worker. The worker is a greenlet    *)
(* too: it runs while no handler holds the processor. Each action below is *)
(* a run of statements that does not block; the model lets requests in     *)
(* between any two of them.                                                *)
(***************************************************************************)
SetJob(category_id, job) == [async_index_status EXCEPT ![category_id] = job]

\* lines 118-164: a task is taken; the directory is checked, a valid snapshot
\* is used unless the task forces a refresh, else the files are counted
worker_get ==
    /\ running = None
    /\ worker.at = "idle"
    /\ index_task_queue /= <<>>
    /\ LET task == Head(index_task_queue)
           category_id == task.category_id
           job == async_index_status[category_id]
       IN /\ index_task_queue' = Tail(index_task_queue)
          /\ IF category_id \notin DOMAIN directory
             THEN /\ async_index_status' = SetJob(category_id, [job EXCEPT !.status = "error"])
                  /\ worker' = IdleWorker
             ELSE IF ~task.force_refresh /\ IndexValid(category_id)
             THEN /\ async_index_status' =
                        SetJob(category_id,
                               [job EXCEPT !.status = "complete",
                                           !.files = Sorted(index_file[category_id].files),
                                           !.progress = 100,
                                           !.total_files = Cardinality(index_file[category_id].files),
                                           !.processed_files = Cardinality(index_file[category_id].files)])
                  /\ worker' = IdleWorker
             ELSE /\ async_index_status' =
                        SetJob(category_id,
                               [job EXCEPT !.total_files = Cardinality(directory[category_id])])
                  /\ worker' = Worker("scan", task, Sorted(directory[category_id]), <<>>, 0)
    /\ UNCHANGED <<syncVars, mediaVars, now, connVars, emitted, client_view, resp, greenletVars>>

\* lines 174-206: one name of the listing; a file that is gone is skipped
worker_file ==
    /\ running = None
    /\ worker.at = "scan"
    /\ worker.listing /= <<>>
    /\ LET category_id == worker.task.category_id
           job == async_index_status[category_id]
           filename == Head(worker.listing)
       IN IF category_id \in DOMAIN directory /\ filename \in directory[category_id]
          THEN LET all_files_metadata == Append(worker.all_files_metadata, filename)
                   processed == worker.processed + 1
               IN /\ worker' = [worker EXCEPT !.listing = Tail(@),
                                              !.all_files_metadata = all_files_metadata,
                                              !.processed = processed]
                  /\ async_index_status' =
                        SetJob(category_id,
                               [job EXCEPT !.processed_files = processed,
                                           !.progress = ScanProgress(processed, job.total_files),
                                           !.files = IF processed % chunk_size = 0
                                                     THEN all_files_metadata ELSE @])
          ELSE /\ worker' = [worker EXCEPT !.listing = Tail(@)]
               /\ UNCHANGED async_index_status
    /\ UNCHANGED <<syncVars, mediaVars, now, connVars, emitted, client_view, resp, greenletVars,
                   index_task_queue>>

\* line 209: the whole list is published; the thumbnails are made next
worker_scanned ==
    /\ running = None
    /\ worker.at = "scan"
    /\ worker.listing = <<>>
    /\ async_index_status' =
          SetJob(worker.task.category_id,
                 [async_index_status[worker.task.category_id]
                     EXCEPT !.files = worker.all_files_metadata])
    /\ worker' = [worker EXCEPT !.at = "thumbnails"]
    /\ UNCHANGED <<syncVars, mediaVars, now, connVars, emitted, client_view, resp, greenletVars,
                   index_task_queue>>

\* lines 223-253: the snapshot is saved and the job is complete
worker_complete ==
    /\ running = None
    /\ worker.at = "thumbnails"
    /\ index_file' = save_index(worker.task.category_id, Range(worker.all_files_metadata))
    /\ async_index_status' =
          SetJob(worker.task.category_id,
                 [async_index_status[worker.task.category_id]
                     EXCEPT !.status = "complete", !.progress = 100])
    /\ worker' = IdleWorker
    /\ UNCHANGED <<syncVars, seen_files_tracker, sync_mode_order, last_session_cleanup,
                   directory, faults, now, connVars, emitted, client_view, resp,
                   greenletVars, index_task_queue>>

\* lines 255-268: no task for 5 s and the queue is empty: the thread ends
worker_stop ==
    /\ running = None
    /\ worker.at = "idle"
    /\ index_task_queue = <<>>
    /\ worker' = StoppedWorker
    /\ UNCHANGED <<syncVars, mediaVars, now, connVars, emitted, client_view, resp, greenletVars,
                   async_index_status, index_task_queue>>

(***************************************************************************)
(* The end of the worker in its two steps, of which worker_stop is the     *)
(* sum: queue.get raises Empty and the queue is found empty (lines         *)
(* 255-259), and the finally clause resets background_thread_running       *)
(* (lines 266-268). In between the worker logs and does not block, so it   *)
(* keeps the processor; WorkerYieldPoints are the positions at which it    *)
(* would give it up.                                                       *)
(***************************************************************************)
Indexer == "indexer"

WorkerYieldPoints_AtExit == {"exiting"}

WorkerYieldPoints == {}

worker_timeout ==
    /\ running = None
    /\ worker.at = "idle"
    /\ index_task_queue = <<>>
    /\ worker' = [worker EXCEPT !.at = "exiting"]
    /\ running' = IF "exiting" \in WorkerYieldPoints THEN None ELSE Indexer
    /\ UNCHANGED <<syncVars, mediaVars, now, connVars, emitted, client_view, resp, pc,
                   async_index_status, index_task_queue>>

worker_exit ==
    /\ running \in {None, Indexer}
    /\ worker.at = "exiting"
    /\ worker' = StoppedWorker
    /\ running' = None
    /\ UNCHANGED <<syncVars, mediaVars, now, connVars, emitted, client_view, resp, pc,
                   async_index_status, index_task_queue>>

(***************************************************************************)
(* The directory of a category disappears, or can no longer be read, and   *)
(* its snapshot with it.                                                   *)
(***************************************************************************)
Without(d, k) == [x \in (DOMAIN d) \ {k} |-> d[x]]

\* a file of the category is deleted
remove_file(category_id, filename) ==
    /\ running = None
    /\ category_id \in DOMAIN directory
    /\ filename \in directory[category_id]
    /\ directory' = [directory EXCEPT ![category_id] = @ \ {filename}]
    /\ UNCHANGED <<syncVars, seen_files_tracker, sync_mode_order, last_session_cleanup,
                   index_file, faults, now, connVars, emitted, client_view, resp, greenletVars,
                   indexVars>>

\* a file is copied into the directory of the category
add_file(category_id, filename) ==
    /\ running = None
    /\ category_id \in DOMAIN directory
    /\ filename \notin directory[category_id]
    /\ directory' = [directory EXCEPT ![category_id] = @ \cup {filename}]
    /\ UNCHANGED <<syncVars, seen_files_tracker, sync_mode_order, last_session_cleanup,
                   index_file, faults, now, connVars, emitted, client_view, resp, greenletVars,
                   indexVars>>

\* the stored index document of the category is damaged: it loses its file list
corrupt_index(category_id) ==
    /\ running = None
    /\ category_id \in DOMAIN index_file
    /\ index_file' = [index_file EXCEPT ![category_id] = [timestamp |-> now]]
    /\ UNCHANGED <<syncVars, seen_files_tracker, sync_mode_order, last_session_cleanup,
                   directory, faults, now, connVars, emitted, client_view, resp, greenletVars,
                   indexVars>>

\* calls of the file system start or cease to fail
set_faults(failing) ==
    /\ running = None
    /\ faults /= failing
    /\ faults' = failing
    /\ UNCHANGED <<syncVars, seen_files_tracker, sync_mode_order, last_session_cleanup,
                   index_file, directory, now, connVars, emitted, client_view, resp,
                   greenletVars, indexVars>>

remove_directory(category_id) ==
    /\ running = None
    /\ category_id \in DOMAIN directory
    /\ directory' = Without(directory, category_id)
    /\ index_file' = Without(index_file, category_id)
    /\ UNCHANGED <<syncVars, seen_files_tracker, sync_mode_order, last_session_cleanup,
                   faults, now, connVars, emitted, client_view, resp, greenletVars, indexVars>>

(***************************************************************************)
(* Time passes.                                                            *)
(***************************************************************************)
Tick ==
    /\ running = None
    /\ now < MaxTime
    /\ now' = now + 1
    /\ UNCHANGED <<syncVars, mediaVars, connVars, emitted, client_view, resp, greenletVars, indexVars>>

\* no request reaches the server for SESSION_EXPIRY
Idle ==
    /\ running = None
    /\ now <= MaxTime
    /\ now' = now + SESSION_EXPIRY
    /\ UNCHANGED <<syncVars, mediaVars, connVars, emitted, client_view, resp, greenletVars, indexVars>>

(***************************************************************************)
(* The state when the modules have been imported.                          *)
(***************************************************************************)
InitSync ==
    /\ SYNC_MODE_ENABLED = FALSE
    /\ HOST_SESSION_ID = None
    /\ current_media_state = [category_id |-> None, file_url |-> None, index |-> 0, timestamp |-> 0]
    /\ _sync_session_order = EmptyDict
    /\ _session_states = <<>>

\* the file system as the server finds it: every call succeeds
NoFaults == [stat |-> {}, listdir |-> FALSE, save |-> FALSE]

InitMedia ==
    /\ seen_files_tracker = EmptyDict
    /\ sync_mode_order = EmptyDict
    /\ last_session_cleanup = 0
    /\ index_file = EmptyDict
    /\ faults = NoFaults

InitIndex ==
    /\ async_index_status = EmptyDict
    /\ index_task_queue = <<>>
    /\ worker = StoppedWorker

InitOther ==
    /\ now = 0
    /\ connected = {}
    /\ sync_room = {}
    /\ emitted = <<>>
    /\ client_view = NoView
    /\ resp = NoResponse
    /\ pc = [g \in Greenlets |-> IdleFrame]
    /\ running = None
    /\ InitIndex

\* the category directories as the server finds them
SmallDirectories == [c \in Categories |-> IF c = "c1" THEN {1, 2} ELSE {1}]

Init ==
    /\ InitSync
    /\ InitMedia
    /\ InitOther
    /\ directory = SmallDirectories

(***************************************************************************)
(* SpecSync: the sync coordinator and the real-time channel.               *)
(***************************************************************************)
NextSync ==
    \/ \E s \in SessionCookies, enable \in BOOLEAN, im \in InitialMedias :
          toggle_sync_mode(s, enable, im)
    \/ \E s \in SessionCookies, c \in CategoryArgs, u \in UrlArgs, i \in IndexArgs :
          update_current_media(s, c, u, i)
    \/ read_current_media
    \/ \E k \in Conns : handle_connect(k)
    \/ \E k \in Conns : handle_disconnect(k, ConnCookie[k])
    \/ \E k \in Conns : handle_join_sync(k)
    \/ \E k \in Conns : handle_leave_sync(k)
    \/ Tick

SpecSync == Init /\ [][NextSync]_vars

(***************************************************************************)
(* SpecOrder: the ordering engine for two sessions that page through one   *)
(* category, one name a page, while sync mode is switched on and off and   *)
(* the host reports positions.                                             *)
(***************************************************************************)
NoInitialMedia == InitialMedia({}, None, None, 0)

NextOrder ==
    \/ \E s \in Sessions, page \in 1..MaxPage, force_refresh \in BOOLEAN, shuffle \in BOOLEAN :
          list_media_files(s, "c1", page, 1, force_refresh, shuffle)
    \/ \E s \in Sessions, enable \in BOOLEAN,
          im \in {NoInitialMedia, InitialMedia(MediaKeys, "c1", "u1", 0)} :
          toggle_sync_mode(s, enable, im)
    \/ \E s \in Sessions : update_current_media(s, "c1", "u1", 0)

SpecOrder == Init /\ [][NextOrder]_vars

(***************************************************************************)
(* SpecSwitch: both viewers are connected; session s1 pages through both   *)
(* categories, either session switches sync mode on and off, and the host  *)
(* reports positions and switches between the categories.                  *)
(***************************************************************************)
InitSwitch ==
    /\ InitSync
    /\ InitMedia
    /\ now = 0
    /\ connected = Conns
    /\ sync_room = {}
    /\ emitted = <<>>
    /\ client_view = NoView
    /\ resp = [op |-> "current_media", result |-> NotEnabledError]
    /\ pc = [g \in Greenlets |-> IdleFrame]
    /\ running = None
    /\ InitIndex
    /\ directory = SmallDirectories

SwitchInitialMedias ==
    {NoInitialMedia, InitialMedia({"category_id", "index"}, "c1", None, 1),
     InitialMedia(MediaKeys, None, "u1", 0)}
    \cup {InitialMedia(MediaKeys, c, "u1", 0) : c \in Categories}

NextSwitch ==
    \/ \E c \in Categories, page \in 1..MaxPage, force_refresh \in BOOLEAN, shuffle \in BOOLEAN :
          list_media_files("s1", c, page, 1, force_refresh, shuffle)
    \/ \E s \in Sessions, enable \in BOOLEAN, im \in SwitchInitialMedias :
          toggle_sync_mode(s, enable, im)
    \/ \E s \in SessionCookies, c \in CategoryArgs, i \in IndexArgs :
          update_current_media(s, c, "u1", i)

SpecSwitch == InitSwitch /\ [][NextSwitch]_vars

(***************************************************************************)
(* SpecGreenlet: toggles and position updates run as greenlets, each in    *)
(* two steps, while both viewers are connected and time passes.            *)
(***************************************************************************)
NextGreenlet ==
    \/ \E g \in Greenlets, s \in Sessions, enable \in BOOLEAN,
          im \in {NoInitialMedia, InitialMedia(MediaKeys, "c1", "u1", 0)} :
          toggle_begin(g, s, enable, im)
    \/ \E g \in Greenlets : toggle_emit(g)
    \/ \E g \in Greenlets, s \in Sessions, i \in IndexArgs :
          update_begin(g, s, "c1", "u1", i)
    \/ \E g \in Greenlets : update_emit(g)
    \/ Tick

SpecGreenlet == InitSwitch /\ [][NextGreenlet]_vars

(***************************************************************************)
(* SpecIndex: session s1 pages through category c1 in sorted order, three  *)
(* files that make it a large directory, while the worker indexes it, time *)
(* passes and the directory may disappear.                                 *)
(***************************************************************************)
LargeDirectories == [c \in Categories |-> IF c = "c1" THEN {1, 2, 3} ELSE {1}]

InitIndexing ==
    /\ InitSync
    /\ InitMedia
    /\ InitOther
    /\ directory = LargeDirectories

\* the values of the limit parameter: none, too small, two names a page, too large
LimitArgs == {0, -1, 2, MaxLimit + 1}

NextIndex ==
    \/ \E page \in 0..MaxPage, limit_arg \in LimitArgs, force_refresh \in BOOLEAN :
          list_media("s1", "c1", page, limit_arg, force_refresh, FALSE)
    \/ worker_get
    \/ worker_file
    \/ worker_scanned
    \/ worker_complete
    \/ worker_stop
    \/ remove_directory("c1")
    \/ Tick

SpecIndex == InitIndexing /\ [][NextIndex]_vars

(***************************************************************************)
(* SpecPage: session s1 pages through the large category c1, in its own    *)
(* shuffled order, in sorted order and in the sync order, two names a page, *)
(* while the worker indexes the category, sync mode is switched on and off *)
(* and a file of the category is deleted.                                  *)
(***************************************************************************)
PageLimitArgs == {2}

NextPage ==
    \/ \E page \in 1..MaxPage, limit_arg \in PageLimitArgs, force_refresh \in BOOLEAN,
          shuffle \in BOOLEAN :
          list_media("s1", "c1", page, limit_arg, force_refresh, shuffle)
    \/ \E enable \in BOOLEAN :
          toggle_sync_mode("s1", enable, InitialMedia(MediaKeys, "c1", "u1", 0))
    \/ worker_get
    \/ worker_file
    \/ worker_scanned
    \/ worker_complete
    \/ worker_stop
    \/ remove_file("c1", 3)

SpecPage == InitIndexing /\ [][NextPage]_vars

(***************************************************************************)
(* SpecCap: three sessions, one more than the cap, read the first page of  *)
(* the two categories in sorted order while time passes.                   *)
(***************************************************************************)
NextCap ==
    \/ \E s \in CapSessions, c \in Categories :
          list_media(s, c, 1, 0, FALSE, FALSE)
    \/ Tick

SpecCap == Init /\ [][NextCap]_vars

(***************************************************************************)
(* SpecExpiry: the three sessions read the first page of the two           *)
(* categories between idle periods long enough for sessions to expire.     *)
(***************************************************************************)
NextExpiry ==
    \/ \E s \in CapSessions, c \in Categories :
          list_media(s, c, 1, 0, FALSE, FALSE)
    \/ Idle

SpecExpiry == Init /\ [][NextExpiry]_vars

(***************************************************************************)
(* SpecEmpty: session s1 pages through a category of one file and a        *)
(* category without files, while time passes and the one file is deleted.  *)
(***************************************************************************)
EmptyDirectories == [c \in Categories |-> IF c = "c1" THEN {1} ELSE {}]

InitEmpty ==
    /\ InitSync
    /\ InitMedia
    /\ InitOther
    /\ directory = EmptyDirectories

NextEmpty ==
    \/ \E c \in Categories, page \in 1..MaxPage, force_refresh \in BOOLEAN, shuffle \in BOOLEAN :
          list_media("s1", c, page, 0, force_refresh, shuffle)
    \/ remove_file("c1", 1)
    \/ Tick

SpecEmpty == InitEmpty /\ [][NextEmpty]_vars

(***************************************************************************)
(* SpecRescan: session s1 pages through category c1 in sorted order, one   *)
(* name a page, while time passes, the snapshot expires, a second file is  *)
(* copied into the directory and the first is deleted.                     *)
(***************************************************************************)
NextRescan ==
    \/ \E page \in 1..MaxPage, force_refresh \in BOOLEAN :
          list_media("s1", "c1", page, 1, force_refresh, FALSE)
    \/ add_file("c1", 2)
    \/ remove_file("c1", 1)
    \/ Tick

SpecRescan == InitEmpty /\ [][NextRescan]_vars

(***************************************************************************)
(* SpecFault: session s1 requests the first page of category c1 while      *)
(* time passes, calls of the file system fail and recover, the stored      *)
(* index document is damaged and the directory disappears.                 *)
(***************************************************************************)
FaultSets == [stat : {{}, {1}}, listdir : BOOLEAN, save : BOOLEAN]

NextFault ==
    \/ \E force_refresh \in BOOLEAN, shuffle \in BOOLEAN :
          list_media("s1", "c1", 1, 0, force_refresh, shuffle)
    \/ \E failing \in FaultSets : set_faults(failing)
    \/ corrupt_index("c1")
    \/ remove_directory("c1")
    \/ Tick

SpecFault == Init /\ [][NextFault]_vars

(***************************************************************************)
(* The start of the indexer thread. start_async_indexing reads             *)
(* background_thread_running and calls threading.Thread.start, which       *)
(* blocks the handler until the new thread has started; the flag is set by *)
(* the thread itself, as the first statement of the worker. The runtime    *)
(* patches threading, so the thread is a greenlet: g names the greenlet of *)
(* the thread a request may start, of which pc[g].at is "spawned" until it *)
(* has run and "waiting" while it is in or between index_task_queue.get.   *)
(* The flag is worker.at /= "stopped".                                     *)
(***************************************************************************)
\* GET media of a large category without valid snapshot, of which the job is
\* not complete: list_media_files_async, lines 505-580, start_async_indexing
\* and _start_background_indexer. The response is that of a handler that is
\* resumed before a thread has taken its task.
index_request(g, category_id, force_refresh) ==
    /\ running = None
    /\ pc[g].at = "idle"
    /\ ~IndexValid(category_id)
    /\ is_large_directory(category_id)
    /\ LET index == JobForQuery(category_id, force_refresh)
           status == index.async_index_status[category_id]
       IN /\ status.status /= "complete"
          /\ async_index_status' = index.async_index_status
          /\ index_task_queue' = index.index_task_queue
          /\ pc' = IF index.index_task_queue /= index_task_queue /\ worker.at = "stopped"
                   THEN [pc EXCEPT ![g] = Frame("spawned", None, NoMedia)]
                   ELSE pc
          /\ resp' = PartialResponse(status, 1, 0)
    /\ emitted' = <<>>
    /\ UNCHANGED <<syncVars, mediaVars, now, connVars, client_view, running, worker>>

\* the thread starts to run: _background_indexer_worker, lines 109-112
indexer_boot(g) ==
    /\ running = None
    /\ pc[g].at = "spawned"
    /\ worker' = IdleWorker
    /\ pc' = [pc EXCEPT ![g] = Frame("waiting", None, NoMedia)]
    /\ UNCHANGED <<syncVars, mediaVars, now, connVars, emitted, client_view, resp, running,
                   async_index_status, index_task_queue>>

\* the thread takes a task and works it off, lines 114-253
indexer_task(g) ==
    /\ running = None
    /\ pc[g].at = "waiting"
    /\ index_task_queue /= <<>>
    /\ LET task == Head(index_task_queue)
           category_id == task.category_id
           job == async_index_status[category_id]
           files == IF ~task.force_refresh /\ IndexValid(category_id)
                    THEN index_file[category_id].files
                    ELSE directory[category_id]
       IN /\ index_task_queue' = Tail(index_task_queue)
          /\ IF category_id \notin DOMAIN directory
             THEN /\ async_index_status' = SetJob(category_id, [job EXCEPT !.status = "error"])
                  /\ UNCHANGED index_file
             ELSE /\ async_index_status' =
                        SetJob(category_id,
                               [job EXCEPT !.status = "complete",
                                           !.files = Sorted(files),
                                           !.progress = 100,
                                           !.total_files = Cardinality(files),
                                           !.processed_files = Cardinality(files)])
                  /\ index_file' = IF ~task.force_refresh /\ IndexValid(category_id)
                                   THEN index_file
                                   ELSE save_index(category_id, files)
    /\ UNCHANGED <<syncVars, seen_files_tracker, sync_mode_order, last_session_cleanup,
                   directory, faults, now, connVars, emitted, client_view, resp, greenletVars,
                   worker>>

\* no task for 5 s and the queue is empty: the thread resets the flag and
\* ends, lines 255-268
indexer_exit(g) ==
    /\ running = None
    /\ pc[g].at = "waiting"
    /\ index_task_queue = <<>>
    /\ worker' = StoppedWorker
    /\ pc' = [pc EXCEPT ![g] = IdleFrame]
    /\ UNCHANGED <<syncVars, mediaVars, now, connVars, emitted, client_view, resp, running,
                   async_index_status, index_task_queue>>

(***************************************************************************)
(* SpecStart: requests for the two categories, both large, start indexing  *)
(* jobs while the threads they start run and end and time passes.          *)
(***************************************************************************)
InitStart ==
    /\ InitSync
    /\ InitMedia
    /\ InitOther
    /\ directory = [c \in Categories |-> {1, 2, 3}]

NextStart ==
    \/ \E g \in Greenlets, c \in Categories, force_refresh \in BOOLEAN :
          index_request(g, c, force_refresh)
    \/ \E g \in Greenlets : indexer_boot(g)
    \/ \E g \in Greenlets : indexer_task(g)
    \/ \E g \in Greenlets : indexer_exit(g)
    \/ Tick

SpecStart == InitStart /\ [][NextStart]_vars

(***************************************************************************)
(* SpecView: three connections, the first opened with a short session id,  *)
(* the second with a full one that starts with the first, the third        *)
(* without cookie, report their view states, ask for the view of a         *)
(* session by id or prefix, and disconnect.                                *)
(***************************************************************************)
ViewConns == {"v1", "v2", "v3"}

ViewCookie == [k \in ViewConns |-> IF k = "v1" THEN "ab" ELSE IF k = "v2" THEN "ab17" ELSE ""]

\* the reports: well-formed ones, and ones without fields, with a blank category,
\* a negative index and an order that holds a None
StateDatas ==
    {StateData(StateKeys, c, i, <<"u1">>) : c \in Categories, i \in IndexArgs}
    \cup {StateData({"index"}, "c1", 0, <<>>), StateData(StateKeys, "", 0, <<"u1">>),
          StateData(StateKeys, "c1", -1, <<"u1">>), StateData(StateKeys, "c1", 0, <<None>>)}

\* the targets asked for: the ids of the cookies, prefixes of them of less than
\* 16 and of 16 characters, an id no session has, and None
ViewTargets == {"", "a", "ab", "abx", "ab16", "ab17", "zz", None}

ViewRequests ==
    {ViewRequest({"target_session_id"}, t) : t \in ViewTargets} \cup {ViewRequest({}, None)}

InitView ==
    /\ InitSync
    /\ InitMedia
    /\ InitOther
    /\ directory = SmallDirectories

NextView ==
    \/ \E k \in ViewConns : handle_connect(k)
    \/ \E k \in ViewConns : handle_disconnect(k, ViewCookie[k])
    \/ \E k \in ViewConns, data \in StateDatas : handle_update_my_state(k, ViewCookie[k], data)
    \/ \E k \in ViewConns, data \in ViewRequests : handle_request_view_info(k, data)

SpecView == InitView /\ [][NextView]_vars

(***************************************************************************)
(* SpecLive: session s1 reads the first page of the large category c1      *)
(* while the worker, scheduled fairly, indexes it and ends when it finds   *)
(* no task, time passes and the directory may disappear.                   *)
(***************************************************************************)
NextLive ==
    \/ \E force_refresh \in BOOLEAN : list_media("s1", "c1", 1, 2, force_refresh, FALSE)
    \/ worker_get
    \/ worker_file
    \/ worker_scanned
    \/ worker_complete
    \/ worker_timeout
    \/ worker_exit
    \/ remove_directory("c1")
    \/ Tick

WorkerFairness ==
    /\ WF_vars(worker_get)
    /\ WF_vars(worker_file)
    /\ WF_vars(worker_scanned)
    /\ WF_vars(worker_complete)
    /\ WF_vars(worker_exit)

SpecLive == InitIndexing /\ [][NextLive]_vars /\ WorkerFairness

(***************************************************************************)
(* The properties.                                                         *)
(***************************************************************************)
NotHostError == UpdateResult(FALSE, "Only the host can update the current media")

MediaFields(state) == <<state.category_id, state.file_url, state.index>>

\* C1: while sync mode is enabled, update_current_media called with a session id
\* other than HOST_SESSION_ID (no cookie included) is rejected with the
\* authorization error, leaves current_media_state and every sync order unchanged
\* and emits nothing; called by the host with a str category and an int index it
\* succeeds, and get_current_media then returns the category, url and index given.
C1_HostAuthority ==
    [][\A s \in SessionCookies, c \in CategoryArgs, i \in IndexArgs :
          (SYNC_MODE_ENABLED /\ update_current_media(s, c, "u1", i)) =>
             IF s /= HOST_SESSION_ID
             THEN /\ resp' = NotHostError
                  /\ UNCHANGED <<current_media_state, _sync_session_order>>
                  /\ emitted' = <<>>
             ELSE c /= None =>
                    /\ resp' = UpdateResult(TRUE, None)
                    /\ MediaFields(get_current_media') = <<c, "u1", i>>]_vars

\* C1 witness: a caller that is not the host has been refused after the host had
\* moved to index 1 and while a sync order is stored
C1_Witness ==
    /\ SYNC_MODE_ENABLED
    /\ resp = NotHostError
    /\ current_media_state.index = 1
    /\ _sync_session_order /= EmptyDict

\* page `page` of order at `limit` names a page, a page past the end being the last
PageOf(order, page, limit) ==
    LET last == (Len(order) + limit - 1) \div limit
        p == IF page > last THEN last ELSE page
        lo == (p - 1) * limit + 1
        hi == IF p * limit < Len(order) THEN p * limit ELSE Len(order)
    IN [i \in 1..(hi - lo + 1) |-> order[lo + i - 1]]

\* C2: once sync mode is enabled with category c1 as the category of the shared
\* state, no request for a page of c1, whatever its session and its shuffle
\* preference, generates or leaves an order of the session's own, and the names
\* returned are that page of the sync order of c1 (so two sessions that ask for
\* the same page receive the same names).
C2_SyncOrderDeterminism ==
    [][\A s \in Sessions, page \in 1..MaxPage, force_refresh \in BOOLEAN, shuffle \in BOOLEAN :
          (/\ SYNC_MODE_ENABLED
           /\ current_media_state.category_id = "c1"
           /\ list_media_files(s, "c1", page, 1, force_refresh, shuffle)) =>
             /\ get_session_order("c1", s)' = <<>>
             /\ "c1" \in DOMAIN _sync_session_order =>
                   resp'.files = PageOf(_sync_session_order["c1"], page, 1)]_vars

\* the shuffle state of session s for c1, None-free: the state of a session that
\* has none is the empty one
ShuffleOrder(s) == get_session_order("c1", s)

ShuffleSeen(s) ==
    IF "c1" \in DOMAIN seen_files_tracker /\ s \in DOMAIN seen_files_tracker["c1"]
    THEN seen_files_tracker["c1"][s].seen
    ELSE {}

\* session s is in a run through c1 of which the pages 1..j have been served: it
\* holds a permutation of the names, and has seen the names of those pages
InRun(s, j, limit) ==
    /\ ShuffleOrder(s) \in Shuffles(directory["c1"])
    /\ ShuffleSeen(s) =
          {ShuffleOrder(s)[n] : n \in {m \in 1..Len(ShuffleOrder(s)) : m <= j * limit}}

\* C3: with sync mode disabled, shuffle=true and no force_refresh, a session that
\* holds no order and asks for page 1 is given a permutation of the N names and
\* page 1 of it; asking for the pages that follow in sequence it is served the
\* slices of that same permutation, and has seen exactly the names served; so
\* pages 1..ceil(N/limit) return every name once, and the request after them
\* finds every name seen and starts a new permutation.
C3_ShuffleExhaustion ==
    [][\A s \in Sessions, page \in 1..MaxPage :
          (~SYNC_MODE_ENABLED /\ list_media_files(s, "c1", page, 1, FALSE, TRUE)) =>
             /\ (page = 1 /\ ShuffleOrder(s) = <<>>) =>
                   /\ InRun(s, 1, 1)'
                   /\ resp'.files = PageOf(ShuffleOrder(s)', 1, 1)
             /\ (page > 1 /\ InRun(s, page - 1, 1) /\ page - 1 < Cardinality(directory["c1"])) =>
                   /\ ShuffleOrder(s)' = ShuffleOrder(s)
                   /\ InRun(s, page, 1)'
                   /\ resp'.files = PageOf(ShuffleOrder(s), page, 1)
             /\ InRun(s, Cardinality(directory["c1"]), 1) =>
                   /\ ShuffleOrder(s)' \in Shuffles(directory["c1"])
                   /\ resp'.files = PageOf(ShuffleOrder(s)', page, 1)
                   /\ ShuffleSeen(s)' = Range(resp'.files)]_vars

\* C4: while sync mode is enabled, a disable call of any session, host or not,
\* leaves SYNC_MODE_ENABLED false, HOST_SESSION_ID None, current_media_state reset
\* to category None, url None, index 0, no sync order, and emits exactly one
\* sync_disabled event, addressed to every connection.
C4_DisableResets ==
    [][\A s \in Sessions, im \in SwitchInitialMedias :
          (SYNC_MODE_ENABLED /\ toggle_sync_mode(s, FALSE, im)) =>
             /\ ~SYNC_MODE_ENABLED'
             /\ HOST_SESSION_ID' = None
             /\ MediaFields(current_media_state') = <<None, None, 0>>
             /\ DOMAIN _sync_session_order' = {}
             /\ emitted' = <<Event("sync_disabled", [active |-> FALSE], connected)>>]_vars

\* C4 witness: sync mode has just been disabled after a session had paged, and
\* the event is addressed to both connections
C4_Witness ==
    /\ ~SYNC_MODE_ENABLED
    /\ client_view.active = FALSE
    /\ emitted = <<Event("sync_disabled", [active |-> FALSE], Conns)>>
    /\ seen_files_tracker /= EmptyDict

\* C5: an enable call made while sync mode is disabled makes the caller the host,
\* records the category, url and index supplied when initial_media holds all
\* three keys and the reset state otherwise, stores the order the host holds for
\* that category, when it holds one, as the sync order of the category, and emits
\* exactly one sync_enabled event with the host id and the state, addressed to
\* every connection.
C5_EnableCaptures ==
    [][\A s \in Sessions, im \in SwitchInitialMedias :
          (~SYNC_MODE_ENABLED /\ toggle_sync_mode(s, TRUE, im)) =>
             /\ SYNC_MODE_ENABLED'
             /\ HOST_SESSION_ID' = s
             /\ MediaFields(current_media_state') =
                   IF MediaKeys \subseteq im.keys
                   THEN <<im.category_id, im.file_url, im.index>>
                   ELSE <<None, None, 0>>
             /\ _sync_session_order' =
                   IF /\ MediaKeys \subseteq im.keys
                      /\ im.category_id \in DOMAIN seen_files_tracker
                      /\ s \in DOMAIN seen_files_tracker[im.category_id]
                      /\ seen_files_tracker[im.category_id][s].order /= <<>>
                   THEN [c \in {im.category_id} |-> seen_files_tracker[c][s].order]
                   ELSE _sync_session_order
             /\ emitted' = <<Event("sync_enabled",
                                   [active |-> TRUE, host_session_id |-> s,
                                    media |-> current_media_state'],
                                   connected)>>]_vars

\* C5 witness: s1 has just become host on c2 and its order for c2 is the sync order
C5_Witness ==
    /\ SYNC_MODE_ENABLED
    /\ HOST_SESSION_ID = "s1"
    /\ Len(emitted) = 1
    /\ emitted[1].event = "sync_enabled"
    /\ current_media_state.category_id = "c2"
    /\ DOMAIN _sync_session_order = {"c2"}
    /\ _sync_session_order["c2"] = get_session_order("c2", "s1")

\* C6: a sync order that is stored for a category keeps its value in every later
\* state until sync mode is disabled, whatever page requests (the host's own and
\* forced refreshes included), position updates and category switches follow.
C6_SyncOrderCapturedOnce ==
    [][(SYNC_MODE_ENABLED /\ SYNC_MODE_ENABLED') =>
          \A c \in DOMAIN _sync_session_order :
             /\ c \in DOMAIN _sync_session_order'
             /\ _sync_session_order'[c] = _sync_session_order[c]]_vars

\* C6 witness: both categories have a sync order, the host has paged through c1
\* since and switched category
C6_Witness ==
    /\ SYNC_MODE_ENABLED
    /\ DOMAIN _sync_session_order = {"c1", "c2"}
    /\ _sync_session_order["c1"] = <<2, 1>>
    /\ HOST_SESSION_ID = "s1"
    /\ "c1" \in DOMAIN seen_files_tracker
    /\ get_session_order("c1", "s1") = <<>>
    /\ resp = UpdateResult(TRUE, None)
    /\ current_media_state.category_id = "c1"

\* C7: the events of the toggles follow their state changes one for one: a
\* toggle that is about to emit finds the mode, and for sync_enabled the host, as
\* it has set them, no other toggle having run in between; so whenever no handler
\* is under way the last event emitted agrees with SYNC_MODE_ENABLED, and the host
\* id of the last sync_enabled is HOST_SESSION_ID.
C7_ToggleAtomicWithBroadcast ==
    /\ \A g \in Greenlets :
          /\ pc[g].at = "emit_enabled" =>
                SYNC_MODE_ENABLED /\ HOST_SESSION_ID = pc[g].session_id
          /\ pc[g].at = "emit_disabled" => ~SYNC_MODE_ENABLED
    /\ AllIdle =>
          /\ client_view.active = SYNC_MODE_ENABLED
          /\ SYNC_MODE_ENABLED => client_view.host_session_id = HOST_SESSION_ID

\* C7 witness: s2 has become host by a toggle of greenlet g2 after an earlier
\* enabled period had been ended, and the event of the toggle is out
C7_Witness ==
    /\ AllIdle
    /\ SYNC_MODE_ENABLED
    /\ HOST_SESSION_ID = "s2"
    /\ Len(emitted) = 1
    /\ emitted[1].event = "sync_enabled"
    /\ emitted[1].data.host_session_id = "s2"
    /\ current_media_state.timestamp = MaxTime

\* C8: every successful update emits one sync_state that carries the state the
\* update itself has written, before any other update writes: an update that is
\* about to emit finds current_media_state as it has written it, and whenever no
\* handler is under way the position a subscriber holds is current_media_state.
C8_SyncStateInOrder ==
    /\ \A g \in Greenlets :
          pc[g].at = "emit_state" =>
             /\ current_media_state = pc[g].wrote
             /\ \A h \in Greenlets \ {g} : pc[h].at = "idle"
    /\ (AllIdle /\ SYNC_MODE_ENABLED) => client_view.media = current_media_state

\* C8 witness: the host has moved to index 1 at a later time than it moved to
\* index 0, and the sync_state of the second update is the last event
C8_Witness ==
    /\ AllIdle
    /\ SYNC_MODE_ENABLED
    /\ Len(emitted) = 1
    /\ emitted[1].event = "sync_state"
    /\ emitted[1].data.index = 1
    /\ emitted[1].data.timestamp = MaxTime
    /\ client_view.media = current_media_state

\* C9: a sync_state event is addressed only to members of SYNC_ROOM (the position
\* update to the room, the state sent on joining to the connection that has just
\* joined), never to a connection outside it; sync_enabled and sync_disabled are
\* addressed to every open connection.
C9_RoomOnlyUpdates ==
    \A n \in DOMAIN emitted :
       /\ emitted[n].event = "sync_state" => emitted[n].to \subseteq sync_room
       /\ emitted[n].event \in {"sync_enabled", "sync_disabled"} => emitted[n].to = connected

\* C9 witness: a position update has gone to k1, the one member of the room,
\* while k2 is connected and outside the room
C9_Witness ==
    /\ Len(emitted) = 1
    /\ emitted[1].event = "sync_state"
    /\ emitted[1].to = {"k1"}
    /\ connected = Conns
    /\ resp = UpdateResult(TRUE, None)

\* C10: in every state in which sync mode is disabled get_current_media returns
\* the error 'Sync mode not enabled', after a disable that followed host updates
\* too; the category, url and index of an earlier enabled period are never
\* returned, nor are they kept in current_media_state.
C10_NotEnabledError ==
    ~SYNC_MODE_ENABLED =>
       /\ get_current_media = NotEnabledError
       /\ resp.op = "current_media" => resp.result = NotEnabledError
       /\ MediaFields(current_media_state) = <<None, None, 0>>

\* C10 witness: get_current_media has been called after a disable that reset the
\* state at a time later than the start
C10_Witness ==
    /\ ~SYNC_MODE_ENABLED
    /\ resp = [op |-> "current_media", result |-> NotEnabledError]
    /\ current_media_state.timestamp > 0

(***************************************************************************)
(* C11: a catalog query without force_refresh made while the snapshot of   *)
(* the category is within CACHE_EXPIRY of its timestamp leaves the         *)
(* snapshot as it is and starts no scan; a query made after expiry or with *)
(* force_refresh leaves a snapshot with the timestamp of the query, or a   *)
(* running job whose worker writes the snapshot with the time at which it  *)
(* completes.                                                              *)
(***************************************************************************)
WithinExpiry(c) ==
    c \in DOMAIN index_file /\ now - index_file[c].timestamp <= CACHE_EXPIRY

FreshSnapshot(c) ==
    /\ c \in DOMAIN index_file'
    /\ index_file'[c].timestamp = now
    /\ index_file'[c].files = directory[c]

\* the limit parameters of the requests that pass the validation
ValidLimitArgs == {limit_arg \in LimitArgs : limit_arg = 0 \/ (1 <= limit_arg /\ limit_arg <= MaxLimit)}

IsPrefix(a, b) == Len(a) <= Len(b) /\ SubSeq(b, 1, Len(a)) = a

\* the entries of a_list at the positions of page `page`, none past the end
Segment(a_list, page, limit) ==
    LET lo == (page - 1) * limit + 1
        hi == Min({page * limit, Len(a_list)})
    IN [i \in 1..(hi - lo + 1) |-> a_list[lo + i - 1]]

IsPartial(response) == "indexing_progress" \in DOMAIN response

LimitOf(limit_arg) == IF limit_arg = 0 THEN DEFAULT_PAGE_SIZE ELSE limit_arg

C12_PartialResultsGrow ==
    [][/\ JobRunning(async_index_status, "c1") =>
             /\ IsPrefix(async_index_status["c1"].files, async_index_status'["c1"].files)
             /\ async_index_status["c1"].progress <= async_index_status'["c1"].progress
       /\ \A page \in 1..MaxPage, limit_arg \in ValidLimitArgs, force_refresh \in BOOLEAN :
             list_media("s1", "c1", page, limit_arg, force_refresh, FALSE) /\ IsPartial(resp') =>
                /\ JobRunning(async_index_status', "c1")
                /\ resp'.files = Segment(async_index_status'["c1"].files, page, LimitOf(limit_arg))
                /\ resp'.indexing_progress = async_index_status'["c1"].progress]_vars

\* a poll has returned two entries of the running job, which holds three by now
C12_Witness ==
    /\ IsPartial(resp)
    /\ resp.files = <<1, 2>>
    /\ resp.limit = DEFAULT_PAGE_SIZE
    /\ JobRunning(async_index_status, "c1")
    /\ async_index_status["c1"].files = <<1, 2, 3>>
    /\ async_index_status["c1"].progress > resp.indexing_progress

(***************************************************************************)
(* C13: a response carries indexing_progress only if the job of the        *)
(* category is running with a progress below 100, and the value it carries *)
(* is that progress; a response served when the job is complete carries no *)
(* indexing_progress. The worker runs between any two requests.            *)
(***************************************************************************)
C13_ProgressOnlyWhileIndexing ==
    [][\A page \in 0..MaxPage, limit_arg \in LimitArgs, force_refresh \in BOOLEAN :
          list_media("s1", "c1", page, limit_arg, force_refresh, FALSE) =>
             /\ IsPartial(resp') =>
                   /\ JobRunning(async_index_status', "c1")
                   /\ async_index_status'["c1"].progress < 100
                   /\ resp'.indexing_progress < 100
             /\ ("c1" \in DOMAIN async_index_status'
                    /\ async_index_status'["c1"].status = "complete") => ~IsPartial(resp')]_vars

\* a poll made when every file was scanned and the snapshot not yet saved
C13_Witness ==
    /\ IsPartial(resp)
    /\ resp.indexing_progress = 99
    /\ resp.files /= <<>>
    /\ JobRunning(async_index_status, "c1")
    /\ worker.at = "thumbnails"

(***************************************************************************)
(* C14: a request that finds the job of the category running leaves the    *)
(* job table and the task queue as they are, with force_refresh too, and   *)
(* at most one task of the category is queued or executed at any time: one *)
(* exactly while its job is running.                                       *)
(***************************************************************************)
\* the tasks of category c that are queued or in execution
TasksFor(c) ==
    Cardinality({i \in DOMAIN index_task_queue : index_task_queue[i].category_id = c})
    + (IF worker.at \in {"scan", "thumbnails"} /\ worker.task.category_id = c THEN 1 ELSE 0)

OneTaskPerJob(c) ==
    TasksFor(c) = (IF JobRunning(async_index_status, c) THEN 1 ELSE 0)

C14_DuplicateStartIsNoOp ==
    [][/\ OneTaskPerJob("c1") /\ OneTaskPerJob("c1")'
       /\ \A page \in 1..MaxPage, limit_arg \in LimitArgs, force_refresh \in BOOLEAN :
             JobRunning(async_index_status, "c1")
                /\ list_media("s1", "c1", page, limit_arg, force_refresh, FALSE) =>
                   UNCHANGED <<async_index_status, index_task_queue>>]_vars

\* a request has found the job at one file of three while the worker executes its
\* task, and no second task is queued
C14_Witness ==
    /\ JobRunning(async_index_status, "c1")
    /\ worker.at = "scan"
    /\ worker.processed = 1
    /\ IsPartial(resp)
    /\ resp.indexing_progress = 33
    /\ index_task_queue = <<>>

(***************************************************************************)
(* C15: a query for a large category without valid snapshot writes no      *)
(* snapshot in the handler (it does not scan the directory), leaves a      *)
(* running job and returns the partial results of the job, whatever the    *)
(* status it finds.                                                        *)
(***************************************************************************)
C15_NoScanInHandler ==
    [][\A page \in 1..MaxPage, limit_arg \in ValidLimitArgs, force_refresh \in BOOLEAN :
          is_large_directory("c1") /\ ~WithinExpiry("c1")
             /\ list_media("s1", "c1", page, limit_arg, force_refresh, FALSE) =>
                /\ index_file' = index_file
                /\ JobRunning(async_index_status', "c1")
                /\ IsPartial(resp')]_vars

(***************************************************************************)
(* C16: when the worker ends a task whose directory has disappeared, the   *)
(* job's status is 'error' and the job holds the entries gathered by the   *)
(* scan.                                                                   *)
(***************************************************************************)
C16_FailedScanKeepsEntries ==
    [][(/\ worker.at \in {"scan", "thumbnails"}
        /\ worker'.at = "idle"
        /\ worker.task.category_id \notin DOMAIN directory) =>
          /\ async_index_status'[worker.task.category_id].status = "error"
          /\ async_index_status'[worker.task.category_id].files = worker.all_files_metadata]_vars

(***************************************************************************)
(* C17 as stated, for every response of the catalog query: when the list   *)
(* that is paginated is not empty and the requested page lies past its     *)
(* end, the response holds the entries of the last page of the list (a     *)
(* page that is not empty) and reports the number of that page.            *)
(***************************************************************************)
\* the order _determine_file_order chooses for session s1 in category c1
EngineOrder(shuffle) ==
    IF SyncOrderActive("c1") THEN _sync_session_order["c1"]
    ELSE IF shuffle THEN get_session_order("c1", "s1")
    ELSE IF "c1" \in DOMAIN sync_mode_order THEN sync_mode_order["c1"] ELSE <<>>

PastTheEnd(order, page, limit) == Len(order) > 0 /\ (page - 1) * limit >= Len(order)

\* the response is the last page of order, with the names the snapshot holds
ClampedTo(response, order, limit, names) ==
    /\ response.page = CeilDiv(Len(order), limit)
    /\ response.files = Filter(Segment(order, CeilDiv(Len(order), limit), limit), names)

IsAscending(a_list) == \A i, j \in DOMAIN a_list : i < j => a_list[i] < a_list[j]

C18_SharedSortedOrder ==
    [][\A s \in Sessions, page \in 1..MaxPage, force_refresh \in BOOLEAN :
          ~SyncOrderActive("c1") /\ page <= CeilDiv(Cardinality(directory["c1"]), 1)
             /\ list_media_files(s, "c1", page, 1, force_refresh, FALSE) =>
             /\ "c1" \in DOMAIN sync_mode_order'
             /\ IsAscending(sync_mode_order'["c1"])
             /\ Range(sync_mode_order'["c1"]) = directory["c1"]
             /\ resp' = ListResult(Segment(sync_mode_order'["c1"], page, 1), page, 1,
                                   Cardinality(directory["c1"]),
                                   page < Cardinality(directory["c1"]))
             /\ ("c1" \in DOMAIN sync_mode_order /\ ~force_refresh) =>
                   sync_mode_order' = sync_mode_order]_vars

\* both sessions have paged without shuffle and the last page has been served
C18_Witness ==
    /\ ~SYNC_MODE_ENABLED
    /\ "c1" \in DOMAIN seen_files_tracker
    /\ DOMAIN seen_files_tracker["c1"] = Sessions
    /\ \A s \in Sessions : seen_files_tracker["c1"][s].order = <<>>
    /\ sync_mode_order = [c \in {"c1"} |-> <<1, 2>>]
    /\ resp = ListResult(<<2>>, 2, 1, 2, FALSE)

(***************************************************************************)
(* C19 as stated, for every response of the catalog query: hasMore is true *)
(* exactly when the page served times the limit is smaller than the length *)
(* of the list that was paginated.                                         *)
(***************************************************************************)
C19_HasMoreOnEveryPath ==
    [][\A page \in 1..MaxPage, limit_arg \in PageLimitArgs, force_refresh \in BOOLEAN,
          shuffle \in BOOLEAN :
          list_media("s1", "c1", page, limit_arg, force_refresh, shuffle) /\ resp'.error = None =>
             LET order == IF IsPartial(resp') THEN async_index_status'["c1"].files
                          ELSE EngineOrder(shuffle)'
             IN resp'.hasMore <=> (resp'.page * resp'.limit < Len(order))]_vars

(***************************************************************************)
(* C19, amended: in a response of list_media_files hasMore is true exactly *)
(* when the page served times the limit is smaller than the length of the  *)
(* chosen order, whatever the total of the snapshot is; in a partial       *)
(* response hasMore is true if that holds of the entries gathered or the   *)
(* progress of the job is below 100, which it is in every partial response.*)
(***************************************************************************)
C19_HasMoreOfChosenOrder ==
    [][\A page \in 1..MaxPage, limit_arg \in PageLimitArgs, force_refresh \in BOOLEAN,
          shuffle \in BOOLEAN :
          list_media("s1", "c1", page, limit_arg, force_refresh, shuffle) /\ resp'.error = None =>
             IF IsPartial(resp')
             THEN /\ resp'.hasMore <=>
                        \/ page * resp'.limit < Len(async_index_status'["c1"].files)
                        \/ async_index_status'["c1"].progress < 100
                  /\ resp'.hasMore
             ELSE /\ resp'.hasMore <=> (resp'.page * resp'.limit < Len(EngineOrder(shuffle)'))
                  /\ resp'.total = Cardinality(index_file'["c1"].files)]_vars

\* page 1 of an order of three names has been served with more to come, while the
\* snapshot holds two names
C19_Witness ==
    /\ ~IsPartial(resp)
    /\ resp.op = "list"
    /\ resp.error = None
    /\ resp.page = 1
    /\ resp.limit = 2
    /\ resp.total = 2
    /\ resp.hasMore

(***************************************************************************)
(* C20: a catalog query with page < 1 or a limit outside 1..100 is         *)
(* answered with an error, whatever path it takes, and leaves the sorted   *)
(* orders and the orders of the sessions as they were (sessions that have  *)
(* expired may be removed).                                                *)
(***************************************************************************)
ValidRequest(page, limit_arg) ==
    page >= 1 /\ 1 <= LimitOf(limit_arg) /\ LimitOf(limit_arg) <= MaxLimit /\ limit_arg >= 0

C20_ValidationOnEveryPath ==
    [][\A page \in 0..MaxPage, limit_arg \in LimitArgs, force_refresh \in BOOLEAN :
          ~ValidRequest(page, limit_arg)
             /\ list_media("s1", "c1", page, limit_arg, force_refresh, FALSE) =>
                /\ resp'.error /= None
                /\ sync_mode_order' = sync_mode_order
                /\ seen_files_tracker' \in
                      {cleaned.tracker : cleaned \in clean_sessions(seen_files_tracker)}]_vars

(***************************************************************************)
(* C21: in every reachable state the number of sessions tracked for one    *)
(* category in seen_files_tracker is at most MAX_SESSIONS_PER_CATEGORY.    *)
(***************************************************************************)
TrackedSessions(tracker, category_id) ==
    IF category_id \in DOMAIN tracker THEN DOMAIN tracker[category_id] ELSE {}

FreshPermutation(s, force_refresh) ==
    \/ ShuffleOrder(s) = <<>>
    \/ force_refresh
    \/ Cardinality(ShuffleSeen(s)) >= Cardinality(directory["c1"])

C27_FreshPermutationClearsSeen ==
    [][\A s \in Sessions, page \in 1..MaxPage, force_refresh \in BOOLEAN :
          (~SyncOrderActive("c1") /\ list_media_files(s, "c1", page, 1, force_refresh, TRUE)) =>
             IF FreshPermutation(s, force_refresh)
             THEN ShuffleSeen(s)' \subseteq Range(resp'.files)
             ELSE ShuffleOrder(s)' = ShuffleOrder(s)]_vars

(***************************************************************************)
(* C28: a page request served from an active sync order clears the shuffle *)
(* state of the requesting session: after the request its stored order and *)
(* its seen set are both empty, whatever its shuffle preference.           *)
(***************************************************************************)
C28_SyncOrderClearsShuffleState ==
    [][\A s \in Sessions, page \in 1..MaxPage, force_refresh \in BOOLEAN, shuffle \in BOOLEAN :
          (SyncOrderActive("c1") /\ list_media_files(s, "c1", page, 1, force_refresh, shuffle)) =>
             /\ ShuffleOrder(s)' = <<>>
             /\ ShuffleSeen(s)' = {}]_vars

(***************************************************************************)
(* C29: a successful update of the host that names a category other than   *)
(* the one of the shared state sets the sync order of the new category to  *)
(* the order the host holds for it, if the host holds a non-empty one, and *)
(* leaves it as it was otherwise; the sync orders of the other categories  *)
(* are not changed.                                                        *)
(***************************************************************************)
Recaptured(c) == get_session_order(c, HOST_SESSION_ID) /= <<>>

C29_CategoryChangeRecaptures ==
    [][\A s \in SessionCookies, c \in CategoryArgs, i \in IndexArgs :
          (/\ current_media_state.category_id /= c
           /\ update_current_media(s, c, "u1", i)
           /\ resp' = UpdateResult(TRUE, None)) =>
             /\ DOMAIN _sync_session_order' =
                   DOMAIN _sync_session_order \cup (IF Recaptured(c) THEN {c} ELSE {})
             /\ \A d \in DOMAIN _sync_session_order' :
                   _sync_session_order'[d] =
                      IF d = c /\ Recaptured(c)
                      THEN get_session_order(c, HOST_SESSION_ID)
                      ELSE _sync_session_order[d]]_vars

\* the host has moved to c2, for which it held an order, and the sync order of c1
\* captured when sync mode was enabled is still there
C29_Witness ==
    /\ resp = UpdateResult(TRUE, None)
    /\ current_media_state.category_id = "c2"
    /\ DOMAIN _sync_session_order = Categories
    /\ _sync_session_order["c2"] = get_session_order("c2", HOST_SESSION_ID)

(***************************************************************************)
(* C26: a catalog query for a category that holds no media file, and of    *)
(* which no snapshot that is still valid lists one, is answered with the   *)
(* empty page, total 0 and hasMore false, and creates no order state for   *)
(* the requesting session: the session is tracked for the category         *)
(* afterwards only if it was before, and no sorted order is stored.        *)
(***************************************************************************)
NoMediaFiles(category_id, force_refresh) ==
    /\ category_id \in DOMAIN directory
    /\ directory[category_id] = {}
    /\ (force_refresh \/ ~IndexValid(category_id) \/ index_file[category_id].files = {})

C26_EmptyCategory ==
    [][\A c \in Categories, page \in 1..MaxPage, force_refresh \in BOOLEAN, shuffle \in BOOLEAN :
          (NoMediaFiles(c, force_refresh) /\ list_media("s1", c, page, 0, force_refresh, shuffle)) =>
             /\ resp' = ListResult(<<>>, page, DEFAULT_PAGE_SIZE, 0, FALSE)
             /\ TrackedSessions(seen_files_tracker', c) \subseteq TrackedSessions(seen_files_tracker, c)
             /\ sync_mode_order' = sync_mode_order]_vars

\* the category whose file was deleted has been read after the snapshot that
\* listed the file expired: the answer is the empty page, and the sessions that
\* read it while it held the file are still tracked
C26_Witness ==
    /\ directory["c1"] = {}
    /\ "c1" \in DOMAIN index_file
    /\ resp = ListResult(<<>>, 2, DEFAULT_PAGE_SIZE, 0, FALSE)
    /\ index_file["c1"].files = {}
    /\ TrackedSessions(seen_files_tracker, "c1") /= {}

(***************************************************************************)
(* C22: a well-formed report of a connection with a session id succeeds    *)
(* (no error is sent) and overwrites the entry of the session: a lookup of *)
(* the id returns the category, index and order of this report, the        *)
(* session has one entry, and the entries of the other sessions are        *)
(* as they were; a report of a connection without session id leaves the    *)
(* registry as it was.                                                     *)
(***************************************************************************)
EntriesOf(states, session_id) == {i \in DOMAIN states : states[i].key = session_id}

OtherEntries(states, session_id) == SelectSeq(states, LAMBDA item : item.key /= session_id)

C22_ReportOverwrites ==
    [][\A k \in ViewConns, data \in StateDatas :
          (ValidStateData(data) /\ handle_update_my_state(k, ViewCookie[k], data)) =>
             IF ViewCookie[k] = ""
             THEN _session_states' = _session_states
             ELSE /\ emitted' = <<>>
                  /\ Cardinality(EntriesOf(_session_states', ViewCookie[k])) = 1
                  /\ LET found == get_session_state(_session_states', ViewCookie[k])
                     IN /\ found /= NoSessionState
                        /\ found.category_id = data.category_id
                        /\ found.index = data.index
                        /\ found.media_order = data.media_order
                  /\ OtherEntries(_session_states', ViewCookie[k])
                        = OtherEntries(_session_states, ViewCookie[k])]_vars

\* both sessions have reported, and the one that reported first is at c2, index 1
C22_Witness ==
    /\ Len(_session_states) = 2
    /\ _session_states[1].key = "ab17"
    /\ get_session_state(_session_states, "ab17").category_id = "c2"
    /\ get_session_state(_session_states, "ab17").index = 1
    /\ emitted = <<>>

(***************************************************************************)
(* C23: a lookup in the registry returns the entry whose key is the        *)
(* identifier when there is one, also when other keys start with the       *)
(* identifier; without such a key, an identifier of less than 16           *)
(* characters returns the entry of a session whose id starts with it, if   *)
(* there is one, and an identifier of 16 characters or more returns        *)
(* nothing.                                                                *)
(***************************************************************************)
StartingWith(states, prefix) == {i \in DOMAIN states : startswith(states[i].key, prefix)}

C23_LookupExactThenPrefix ==
    \A t \in ViewTargets \ {None} :
       LET found == get_session_state(_session_states, t)
       IN IF EntriesOf(_session_states, t) /= {}
          THEN \A i \in EntriesOf(_session_states, t) : found = _session_states[i].state
          ELSE IF Len(Chars(t)) < PrefixLength /\ StartingWith(_session_states, t) /= {}
          THEN \E i \in StartingWith(_session_states, t) : found = _session_states[i].state
          ELSE found = NoSessionState

\* the session of the full id reported first and the session whose short id the
\* full id starts with reported something else: the short id finds its own
\* entry, the prefix "a" the entry of the full id, and the 16 characters that
\* the full id starts with find nothing
C23_Witness ==
    /\ Len(_session_states) = 2
    /\ _session_states[1].key = "ab17"
    /\ _session_states[2].key = "ab"
    /\ _session_states[1].state /= _session_states[2].state
    /\ get_session_state(_session_states, "ab") = _session_states[2].state
    /\ get_session_state(_session_states, "a") = _session_states[1].state
    /\ get_session_state(_session_states, "ab16") = NoSessionState

(***************************************************************************)
(* C24: the disconnect of a connection removes the registry entry of its   *)
(* session, and the session stays without entry until it reports again;    *)
(* while it has none, a lookup by an identifier that matches its id, in    *)
(* full or as a prefix, and the id of no other registered session, returns *)
(* nothing, and a peer-view request for such an identifier is answered     *)
(* with an error.                                                          *)
(***************************************************************************)
Unregistered(session_id) == session_id \notin Keys(_session_states)

MatchesOnly(session_id, t) ==
    /\ startswith(session_id, t)
    /\ \A key \in Keys(_session_states) \ {session_id} : ~startswith(key, t)

NotFound(session_id) ==
    \A t \in ViewTargets \ {None} :
       MatchesOnly(session_id, t) =>
          /\ get_session_state(_session_states, t) = NoSessionState
          /\ "error" \in DOMAIN view_info_response(ViewRequest({"target_session_id"}, t))

C24_DisconnectRemovesEntry ==
    [][\A k \in ViewConns :
          ViewCookie[k] /= "" =>
             /\ handle_disconnect(k, ViewCookie[k]) =>
                   Unregistered(ViewCookie[k])' /\ NotFound(ViewCookie[k])'
             /\ (/\ Unregistered(ViewCookie[k])
                 /\ ~\E data \in StateDatas : handle_update_my_state(k, ViewCookie[k], data)) =>
                   Unregistered(ViewCookie[k])' /\ NotFound(ViewCookie[k])']_vars

\* the connection of the full id has gone while the other session is registered,
\* and a request for the full id has been answered with the error
C24_Witness ==
    /\ "v2" \notin connected
    /\ Keys(_session_states) = {"ab"}
    /\ emitted = <<Event("view_info_response",
                          ViewError(<<"Could not find view information for session", "ab17">>),
                          {"v1"})>>

(***************************************************************************)
(* C25: a peer-view request is answered in the step that handles it, with  *)
(* one view_info_response sent to the requesting connection alone: the     *)
(* category, index and order of the entry the lookup finds for the target, *)
(* with the target echoed, and an error when the target is missing from    *)
(* the request, is not found or cannot be looked up. The handler can run   *)
(* for every connection that is open whatever the registry holds, and      *)
(* leaves the registry as it was.                                          *)
(***************************************************************************)
TargetFound(data) ==
    /\ "target_session_id" \in data.keys
    /\ data.target_session_id /= None
    /\ get_session_state(_session_states, data.target_session_id) /= NoSessionState

C25_OneResponseToRequester ==
    /\ [](\A k \in connected, data \in ViewRequests : ENABLED handle_request_view_info(k, data))
    /\ [][\A k \in ViewConns, data \in ViewRequests :
            handle_request_view_info(k, data) =>
               /\ Len(emitted') = 1
               /\ emitted'[1].event = "view_info_response"
               /\ emitted'[1].to = {k}
               /\ _session_states' = _session_states
               /\ IF TargetFound(data)
                  THEN LET found == get_session_state(_session_states, data.target_session_id)
                       IN /\ DOMAIN emitted'[1].data =
                                {"category_id", "index", "media_order", "target_session_id"}
                          /\ emitted'[1].data.category_id = found.category_id
                          /\ emitted'[1].data.index = found.index
                          /\ emitted'[1].data.media_order = found.media_order
                          /\ emitted'[1].data.target_session_id = data.target_session_id
                  ELSE DOMAIN emitted'[1].data = {"error"}]_vars

\* the connection without cookie has asked for the prefix "a" and has been sent,
\* alone among three open connections, the state of a session at c2
C25_Witness ==
    /\ connected = ViewConns
    /\ Len(emitted) = 1
    /\ emitted[1].event = "view_info_response"
    /\ emitted[1].to = {"v3"}
    /\ "target_session_id" \in DOMAIN emitted[1].data
    /\ emitted[1].data.target_session_id = "a"
    /\ emitted[1].data.category_id = "c2"

(***************************************************************************)
(* C30: with the worker scheduled fairly, a job that start_async_indexing  *)
(* has created, and that is running, is complete or in error some time     *)
(* later, also when its task is queued while the worker, having found the  *)
(* queue empty, is about to end.                                           *)
(***************************************************************************)
JobEnded(c) ==
    /\ c \in DOMAIN async_index_status
    /\ async_index_status[c].status \in {"complete", "error"}

C30_JobsEnd == \A c \in Categories : JobRunning(async_index_status, c) ~> JobEnded(c)

\* a job of c1 has been scanned to the end, time having passed since the start,
\* and the worker, which found no further task, is about to end
C30_Witness ==
    /\ JobEnded("c1")
    /\ async_index_status["c1"].status = "complete"
    /\ async_index_status["c1"].processed_files = 3
    /\ worker.at = "exiting"
    /\ now > 0

(***************************************************************************)
(* C35: a toggle call that is no transition (enable while enabled, disable *)
(* while disabled, or any call without session id) leaves the enabled      *)
(* flag, the host, the shared state and every sync order as they were and  *)
(* emits no event; an enable call of a second viewer does not take the     *)
(* host role.                                                              *)
(***************************************************************************)
C35_InvalidToggleIsNoOp ==
    [][\A s \in SessionCookies, enable \in BOOLEAN, im \in InitialMedias :
          ((s = None \/ enable = SYNC_MODE_ENABLED) /\ toggle_sync_mode(s, enable, im)) =>
             /\ SYNC_MODE_ENABLED' = SYNC_MODE_ENABLED
             /\ HOST_SESSION_ID' = HOST_SESSION_ID
             /\ current_media_state' = current_media_state
             /\ _sync_session_order' = _sync_session_order
             /\ emitted' = <<>>]_vars

\* sync mode is enabled with s1 as host at a position it has reported, and a
\* toggle of s2 has been answered with the status of a viewer that is not host
C35_Witness ==
    /\ SYNC_MODE_ENABLED
    /\ HOST_SESSION_ID = "s1"
    /\ current_media_state.category_id = "c2"
    /\ resp = get_status("s2")
    /\ emitted = <<>>

(***************************************************************************)
(* C36: in every reachable state sync mode is enabled exactly when         *)
(* HOST_SESSION_ID is a session id; at most one session is told is_host by *)
(* the status query, and none while sync mode is disabled; and while it is *)
(* disabled there is no sync order and the shared state is the reset one   *)
(* (category None, url None, index 0).                                     *)
(***************************************************************************)
Hosts == {s \in SessionCookies : get_status(s).is_host}

C36_EnabledIffHost ==
    /\ SYNC_MODE_ENABLED <=> HOST_SESSION_ID \in Sessions
    /\ Cardinality(Hosts) <= 1
    /\ ~SYNC_MODE_ENABLED =>
          /\ Hosts = {}
          /\ HOST_SESSION_ID = None
          /\ _sync_session_order = EmptyDict
          /\ MediaFields(current_media_state) = <<None, None, 0>>

\* s2 is the host, at index 1 of c1, while s1 holds orders of its own
C36_Witness ==
    /\ SYNC_MODE_ENABLED
    /\ Hosts = {"s2"}
    /\ MediaFields(current_media_state) = <<"c1", "u1", 1>>
    /\ get_session_order("c1", "s1") /= <<>>

(***************************************************************************)
(* C40: a disconnect of any connection, the host's included, changes only  *)
(* that connection's bookkeeping and its session's registry entry: the     *)
(* enabled flag, HOST_SESSION_ID, the SyncState, the sync orders and the   *)
(* order states of every session are unchanged, so sync mode stays enabled *)
(* with the same host after the host disconnects.                          *)
(***************************************************************************)
C40_DisconnectKeepsSync ==
    [][\A k \in Conns :
          handle_disconnect(k, ConnCookie[k]) =>
             /\ SYNC_MODE_ENABLED' = SYNC_MODE_ENABLED
             /\ HOST_SESSION_ID' = HOST_SESSION_ID
             /\ current_media_state' = current_media_state
             /\ _sync_session_order' = _sync_session_order
             /\ seen_files_tracker' = seen_files_tracker
             /\ sync_mode_order' = sync_mode_order
             /\ connected' = connected \ {k}
             /\ sync_room' = sync_room \ {k}
             /\ OtherEntries(_session_states', ConnCookie[k]) =
                   OtherEntries(_session_states, ConnCookie[k])]_vars

\* the host s1 has disconnected while k2 is in the sync group
C40_Witness ==
    /\ SYNC_MODE_ENABLED
    /\ HOST_SESSION_ID = "s1"
    /\ "k1" \notin connected
    /\ "k2" \in sync_room
    /\ emitted = <<>>
    /\ resp = NoResponse

(***************************************************************************)
(* C34: a join_sync request made while sync mode is disabled is answered   *)
(* with a sync error sent to the requester and does not add the connection *)
(* to the sync group; made while sync mode is enabled it adds the          *)
(* connection to the group and sends the current SyncState to that         *)
(* connection only.                                                        *)
(***************************************************************************)
EventsNamed(name, events) == {i \in DOMAIN events : events[i].event = name}

C34_JoinSync ==
    [][\A k \in Conns :
          handle_join_sync(k) =>
             IF ~SYNC_MODE_ENABLED
             THEN /\ sync_room' = sync_room
                  /\ EventsNamed("sync_state", emitted') = {}
                  /\ \E i \in EventsNamed("sync_error", emitted') : emitted'[i].to = {k}
                  /\ \A i \in DOMAIN emitted' : emitted'[i].to = {k}
             ELSE /\ sync_room' = sync_room \cup {k}
                  /\ EventsNamed("sync_error", emitted') = {}
                  /\ EventsNamed("sync_state", emitted') /= {}
                  /\ \A i \in EventsNamed("sync_state", emitted') :
                        /\ emitted'[i].to = {k}
                        /\ emitted'[i].data = current_media_state]_vars

\* k2 has joined the group k1 is in and was sent the state of index 1
C34_Witness ==
    /\ SYNC_MODE_ENABLED
    /\ sync_room = {"k1", "k2"}
    /\ Len(emitted) = 2
    /\ emitted[1] = Event("sync_state", current_media_state, {"k2"})
    /\ current_media_state.index = 1

(***************************************************************************)
(* C33: when the session cleanup runs, which it does at most once per      *)
(* cleanup_interval and at the start of a page request, then afterwards no *)
(* tracked session has been idle for longer than SESSION_EXPIRY, every     *)
(* category tracks at most MAX_SESSIONS_PER_CATEGORY sessions, no evicted  *)
(* session was accessed more recently than a retained one, and no category *)
(* is left without a session. The request then enters the requesting       *)
(* session in the category it reads.                                       *)
(***************************************************************************)
CleanedUp(tracker, cleaned) ==
    /\ DOMAIN cleaned \subseteq DOMAIN tracker
    /\ \A c \in DOMAIN tracker :
          LET kept == TrackedSessions(cleaned, c)
              gone == DOMAIN tracker[c] \ kept
          IN /\ kept \subseteq DOMAIN tracker[c]
             /\ c \in DOMAIN cleaned <=> kept /= {}
             /\ Cardinality(kept) <= MAX_SESSIONS_PER_CATEGORY
             /\ \A sid \in kept :
                   /\ cleaned[c][sid] = tracker[c][sid]
                   /\ now - tracker[c][sid].last_access <= SESSION_EXPIRY
             /\ \A sid \in gone :
                   \/ now - tracker[c][sid].last_access > SESSION_EXPIRY
                   \/ Cardinality(DOMAIN tracker[c]) > MAX_SESSIONS_PER_CATEGORY
             /\ \A old \in gone, new \in kept :
                   tracker[c][old].last_access <= tracker[c][new].last_access

\* tracker is cleaned but for the entry of session_id in category_id
EntersRequester(tracker, cleaned, session_id, category_id) ==
    \A c \in Categories :
       LET own == IF c = category_id THEN {session_id} ELSE {}
       IN /\ TrackedSessions(tracker, c) \ own = TrackedSessions(cleaned, c) \ own
          /\ \A sid \in TrackedSessions(tracker, c) \ own : tracker[c][sid] = cleaned[c][sid]
          /\ c \in DOMAIN tracker => TrackedSessions(tracker, c) /= {}

IsPage(response) ==
    /\ response.op = "list"
    /\ response.error = None
    /\ "indexing_progress" \notin DOMAIN response

C38_PageWithinSnapshot ==
    [][\A page \in 1..MaxPage, limit_arg \in PageLimitArgs, force_refresh \in BOOLEAN,
         shuffle \in BOOLEAN :
          (list_media_files("s1", "c1", page, limit_arg, force_refresh, shuffle) /\ IsPage(resp')) =>
             /\ Len(resp'.files) <= limit_arg
             /\ resp'.files /= <<>> =>
                   /\ "c1" \in DOMAIN index_file'
                   /\ Range(resp'.files) \subseteq index_file'["c1"].files]_vars

\* a page of a stale order: the order has a further page, yet the page served
\* is one name short, the deleted file 3 having been skipped
C38_Witness ==
    /\ IsPage(resp)
    /\ resp.hasMore
    /\ Len(resp.files) = 1
    /\ resp.limit = 2
    /\ 3 \notin directory["c1"]
    /\ 3 \notin index_file["c1"].files

(***************************************************************************)
(* C39: after the snapshot of a category has been rebuilt with a different *)
(* file set, non-shuffle page requests made without force_refresh page     *)
(* through the new file set: every file of the snapshot the request used   *)
(* is on some page of the sorted order it pages through.                   *)
(***************************************************************************)
\* the names that the pages of files_to_paginate serve of the snapshot files
ReachableFiles(files_to_paginate, files, limit) ==
    UNION {Range(Filter(Paginate(files_to_paginate, page, limit).filenames, files)) :
              page \in 1..(Len(files_to_paginate) + 1)}

C39_SortedOrderCoversSnapshot ==
    [][\A page \in 1..MaxPage :
          (list_media_files("s1", "c1", page, 1, FALSE, FALSE) /\ IsPage(resp')) =>
             \A f \in index_file'["c1"].files :
                f \in ReachableFiles(sync_mode_order'["c1"], index_file'["c1"].files, 1)]_vars

\* the same for the requests that regenerate the sorted order
C39_RefreshedOrderCoversSnapshot ==
    [][\A page \in 1..MaxPage, force_refresh \in BOOLEAN :
          (/\ force_refresh \/ "c1" \notin DOMAIN sync_mode_order
           /\ list_media_files("s1", "c1", page, 1, force_refresh, FALSE)
           /\ IsPage(resp')) =>
             \A f \in index_file'["c1"].files :
                f \in ReachableFiles(sync_mode_order'["c1"], index_file'["c1"].files, 1)]_vars

(***************************************************************************)
(* C32: a missing, malformed or expired snapshot leads to a rebuild, not   *)
(* to an error; neither a stat failure on one file nor a failure to        *)
(* persist the snapshot makes the query fail: the caller receives the      *)
(* entries of every media file whose stat succeeded. Only a category path  *)
(* that is missing or cannot be read yields an error.                      *)
(***************************************************************************)
Statted(category_id) == directory[category_id] \ faults.stat

C32_RebuildTolerant ==
    [][\A force_refresh \in BOOLEAN, shuffle \in BOOLEAN :
          list_media_files("s1", "c1", 1, 0, force_refresh, shuffle) =>
             IF ~force_refresh /\ IndexValid("c1")
             THEN /\ IsPage(resp')
                  /\ resp'.total = Cardinality(index_file["c1"].files)
             ELSE IF "c1" \notin DOMAIN directory \/ faults.listdir
             THEN resp'.error /= None
             ELSE /\ IsPage(resp')
                  /\ resp'.total = Cardinality(Statted("c1"))
                  /\ (force_refresh /\ shuffle) => Range(resp'.files) = Statted("c1")
                  /\ ~faults.save =>
                        /\ IndexValid("c1")'
                        /\ index_file'["c1"].files = Statted("c1")]_vars

\* a page of the one file that could be statted, from a scan that could not
\* be saved over the damaged index document
C32_Witness ==
    /\ IsPage(resp)
    /\ resp.files = <<2>>
    /\ resp.total = 1
    /\ "c1" \in DOMAIN directory
    /\ directory["c1"] = {1, 2}
    /\ "c1" \in DOMAIN index_file
    /\ "files" \notin DOMAIN index_file["c1"]
    /\ seen_files_tracker["c1"]["s1"].last_access > index_file["c1"].timestamp
    /\ faults = [stat |-> {1}, listdir |-> FALSE, save |-> TRUE]

(***************************************************************************)
(* C37: at most one background indexer thread is alive at any time:        *)
(* start_async_indexing starts a new thread only when none is running,     *)
(* also when two indexing requests for different categories arrive before  *)
(* the first thread has set background_thread_running.                     *)
(***************************************************************************)
AliveIndexers == {g \in Greenlets : pc[g].at = "waiting"}

C37_OneIndexerThread == Cardinality(AliveIndexers) <= 1

\* the same once the flag is set: a request that finds
\* background_thread_running set starts no thread
C37_NoStartWhileFlagSet ==
    [][\A g \in Greenlets, c \in Categories, force_refresh \in BOOLEAN :
          (worker.at /= "stopped" /\ index_request(g, c, force_refresh)) => pc' = pc]_vars

(***************************************************************************)
(* C31: every job that get_async_index_status shows has a status of        *)
(* running, complete or error and a progress from 0 to 100; its progress   *)
(* is 100 exactly when its status is complete, so a running job never      *)
(* shows more than 99; and a complete job does not return to running       *)
(* unless a new job replaces it.                                           *)
(***************************************************************************)
JobWellFormed(job) ==
    /\ job.status \in {"running", "complete", "error"}
    /\ job.progress \in 0..100
    /\ job.progress = 100 <=> job.status = "complete"

C31_JobStatus ==
    /\ [](\A c \in DOMAIN async_index_status : JobWellFormed(async_index_status[c]))
    /\ [][\A c \in DOMAIN async_index_status :
             (async_index_status[c].status = "complete" /\ JobRunning(async_index_status', c)) =>
                /\ async_index_status'[c] = NewJob
                /\ \E force_refresh \in BOOLEAN :
                      index_task_queue' = Append(index_task_queue, Task(c, force_refresh))]_vars

\* a new job has replaced the complete one that saved the snapshot
C31_Witness ==
    /\ "c1" \in DOMAIN async_index_status
    /\ async_index_status["c1"] = NewJob
    /\ IndexValid("c1")
    /\ index_task_queue = <<Task("c1", TRUE)>>
====
